---- MODULE Spec2Model ----
(***************************************************************************)
(* Module C "The Proxy" of Project Aegis: the Smart POA registry, the     *)
(* token gatekeeper, the signed audit trail and the break-glass protocol  *)
(* (backend/proxy_models.py, proxy_vault.py, proxy_break_glass.py,        *)
(* proxy_audit.py, proxy_api.py).                                         *)
(*                                                                         *)
(* The FastAPI endpoints are plain `def` handlers, so they run on a       *)
(* thread pool, each request with a database session of its own.  A       *)
(* request is modelled as a worker that moves through the handler one     *)
(* database interaction at a time: a query loads a row into the session   *)
(* (the worker's snapshot), the code between two interactions is local,   *)
(* and a commit writes the columns the handler assigned.                  *)
(*                                                                         *)
(* Next to it the sentinel: the card authorization webhook                 *)
(* (card_auth_service.py, virtual_card_manager.py), the transaction       *)
(* governor (transaction_governor.py) and the scam analyzer               *)
(* (sentinel_analyzer.py), each with a specification of its own; so have  *)
(* the export of the audit trail and the failures of the event creation.  *)
(*                                                                         *)
(* Time is counted in TOTP intervals (300 s): datetime.utcnow() is `now`. *)
(* An optional value (a nullable column, an Optional argument) is the     *)
(* empty sequence for None and a one-element sequence otherwise.          *)
(***************************************************************************)
EXTENDS Integers, Sequences, FiniteSets, TLC

VARIABLES
    now,         \* datetime.utcnow(), in TOTP intervals
    ticks,       \* how often the clock has advanced
    served,      \* how many requests the threads have taken
    poas,        \* table smart_poas, row i has id i
    audit_logs,  \* table audit_logs, row i has id i
    events,      \* table break_glass_events, row i has id i
    calls,       \* the request each worker thread is serving
    tokens,      \* table encrypted_tokens, row i has id i
    env_key,     \* os.getenv("VAULT_ENCRYPTION_KEY"), None if it is not set
    keys,        \* how many keys Fernet.generate_key() has handed out
    webhook,     \* the card-network request that is being served
    security_logs, \* table security_logs of the card service
    tx,          \* the transaction the governor is asked about
    analysis,    \* what the governor said of it
    transcript,  \* the transcript the scam analyzer is run on
    reports      \* what the analyzer returned, run after run

\* the token vault: its table and the configuration of its cipher
vault == <<tokens, env_key, keys>>

\* the sentinel: card webhook, transaction governor and scam analyzer
sentinel == <<webhook, security_logs, tx, analysis, transcript, reports>>

vars ==
    <<now, ticks, served, poas, audit_logs, events, calls, vault, sentinel>>

-----------------------------------------------------------------------------
(* Bounds of the model *)

MaxTicks == 1
MaxCalls == 4
MaxPoas == 1
MaxEvents == 2
NumWorkers == 2

Workers == 1..NumWorkers

-----------------------------------------------------------------------------
(* Optional values and time *)

None == <<>>
Some(x) == <<x>>
IsNone(v) == v = <<>>
Val(v) == v[1]

\* pyotp.TOTP(secret, interval=300): the length of one TOTP window, seconds
interval == 300

\* timedelta(hours=h) and timedelta(days=d) in TOTP intervals
Hours(h) == (h * 3600) \div interval
Days(d) == Hours(24 * d)

-----------------------------------------------------------------------------
(* Inputs the requests are drawn from *)

SpendLimits == {200}
ExpiryDays == {-1, 30}
ServiceLists ==
    {None, Some(<<>>), Some(<<"Spotify">>), Some(<<"Medical Bills", "Pharmacy">>)}
ServiceNames == {"Spotify"}
Amounts == {None, Some(200), Some(201), Some(500), Some(501)}
Actions == {"payment"}

\* os.getenv("SECRET_KEY", ...): the MAC key of the process
secret_key == "aegis-secret-key-change-in-production"
\* os.getenv("TRUSTED_ADVOCATE_EMAIL", ...)
advocate == "advocate@example.com"

-----------------------------------------------------------------------------
(* proxy_models.py: predicates of the rows *)

\* a validity check that looks at the expiry date alone
is_valid_by_expiry(poa, t) == poa.expiry_date > t

\* SmartPOA.is_valid, evaluated at time t
is_valid(poa, t) ==
    /\ poa.is_active
    /\ IsNone(poa.revoked_at)
    /\ poa.expiry_date > t

\* a scope check for which only a missing list, not an empty one, allows all
is_within_scope_strict(poa, service_name) ==
    IF IsNone(poa.specific_services)
    THEN TRUE
    ELSE \E i \in DOMAIN Val(poa.specific_services) :
             Val(poa.specific_services)[i] = service_name

\* a scope check that lets every service through
is_within_scope_always(poa, service_name) == TRUE

\* SmartPOA.is_within_scope: None and [] are both falsy
is_within_scope(poa, service_name) ==
    IF IsNone(poa.specific_services) \/ Val(poa.specific_services) = <<>>
    THEN TRUE
    ELSE \E i \in DOMAIN Val(poa.specific_services) :
             Val(poa.specific_services)[i] = service_name

\* a limit check that refuses an amount equal to the limit
is_below_limit(poa, amount) == amount < poa.spend_limit

\* what the first n entries of the ledger have allowed on a POA
RECURSIVE AllowedSoFar(_, _)
AllowedSoFar(poa_id, n) ==
    IF n = 0 THEN 0
    ELSE AllowedSoFar(poa_id, n - 1)
         + (IF /\ audit_logs[n].poa_id = poa_id
               /\ audit_logs[n].decision = "ALLOWED"
               /\ ~IsNone(audit_logs[n].amount)
            THEN Val(audit_logs[n].amount) ELSE 0)

\* a limit check that keeps a running total of what was allowed before
is_within_remaining_limit(poa, amount) ==
    AllowedSoFar(poa.id, Len(audit_logs)) + amount <= poa.spend_limit

\* SmartPOA.is_within_limit
is_within_limit(poa, amount) == amount <= poa.spend_limit

-----------------------------------------------------------------------------
(* proxy_vault.py: VaultEncryption.sign_data / verify_signature.  The      *)
(* HMAC-SHA256 of the canonical JSON is modelled as the pair of key and    *)
(* message: two signatures are equal exactly when key and message are.     *)

sign_data(data) == [key |-> secret_key, message |-> data]

verify_signature(data, signature) == sign_data(data) = signature

-----------------------------------------------------------------------------
(* Worker threads.  A call holds the handler's arguments (args), the row   *)
(* its session loaded (snap), the audit entry it has signed and is about   *)
(* to persist (entry), the columns it assigned and has not yet committed   *)
(* (upd), the value it will return once its commit is through (ret), the   *)
(* ids of the rows it inserted (logged, opened) and what the client got    *)
(* (result).                                                               *)

NoResult == [kind |-> "none"]
\* the handler raised: FastAPI answers 500 and the client gets no decision
Raised == [kind |-> "raised"]

NoArgs == [poa_id |-> 0]

Call(op, pc, args, snap, entry, upd, ret, logged, opened, result) ==
    [op |-> op, pc |-> pc, args |-> args, snap |-> snap, entry |-> entry,
     upd |-> upd, ret |-> ret, logged |-> logged, opened |-> opened,
     result |-> result]

Idle ==
    Call("idle", "idle", NoArgs, None, None, None, None, <<>>, <<>>, NoResult)

\* a handler that returns without touching the database again
Return(op, args, snap, result) ==
    Call(op, "done", args, snap, None, None, None, <<>>, <<>>, result)

\* a handler that has signed an audit entry and goes on to persist it
ThenLog(op, args, snap, entry, ret) ==
    Call(op, "log", args, snap, Some(entry), None, Some(ret), <<>>, <<>>,
         NoResult)

\* Handing the return value to the client touches nothing that is shared, so
\* it is taken as the thread's next step before any other thread moves: the
\* states in which a call is "done" are the instants at which it returns.
Returning == \E w \in Workers : calls[w].pc = "done"

\* the thread is at the given place of its handler and may take its step
At(w, pc) == calls[w].pc = pc /\ ~Returning

\* the threads of the pool are interchangeable: a new request is taken by
\* the free thread of lowest number
Free(w) ==
    /\ At(w, "idle")
    /\ \A v \in Workers : v < w => calls[v].pc # "idle"
    /\ served < MaxCalls

Finish(c, logged, opened, result) ==
    Call(c.op, "done", c.args, c.snap, None, None, None, logged, opened,
         result)

-----------------------------------------------------------------------------
(* proxy_vault.py: SmartPOAManager._create_audit_log *)

\* lines 227-234: the dict that is signed, with the clock read at signing
signature_data(poa_id, action_type, timestamp, decision, request_details) ==
    [poa_id |-> poa_id, action_type |-> action_type, timestamp |-> timestamp,
     decision |-> decision, request_details |-> request_details]

\* lines 227-246: the AuditLog object before it is added to the session
SignedEntry(poa_id, action_type, decision, reasoning, request_details, service_name, amount) ==
    [poa_id |-> poa_id, action_type |-> action_type, decision |-> decision,
     reasoning |-> reasoning, request_details |-> request_details,
     service_name |-> service_name, amount |-> amount,
     signature |-> sign_data(signature_data(poa_id, action_type, now,
                                            decision, request_details))]

\* an INSERT that hands out the same id again and again
AuditRowFirstId(e, id, timestamp) ==
    [id |-> 1, poa_id |-> e.poa_id, action_type |-> e.action_type,
     timestamp |-> timestamp, request_details |-> e.request_details,
     service_name |-> e.service_name, amount |-> e.amount,
     decision |-> e.decision, reasoning |-> e.reasoning,
     signature |-> e.signature, signature_verified |-> TRUE,
     advocate_notified |-> FALSE]

\* lines 248-250: the INSERT; the timestamp column takes its default,
\* datetime.utcnow() at the time of the INSERT, and the id is the next one
AuditRow(e, id, timestamp) ==
    [id |-> id, poa_id |-> e.poa_id, action_type |-> e.action_type,
     timestamp |-> timestamp, request_details |-> e.request_details,
     service_name |-> e.service_name, amount |-> e.amount,
     decision |-> e.decision, reasoning |-> e.reasoning,
     signature |-> e.signature, signature_verified |-> TRUE,
     advocate_notified |-> FALSE]

\* proxy_audit.py: FiduciaryLogger.verify_log_signature
verify_log_signature(log_id) ==
    IF log_id \notin DOMAIN audit_logs THEN FALSE
    ELSE LET log == audit_logs[log_id] IN
         verify_signature(
             signature_data(log.poa_id, log.action_type, log.timestamp,
                            log.decision, log.request_details),
             log.signature)

-----------------------------------------------------------------------------
(* proxy_vault.py: SmartPOAManager.create_poa *)

POARow(id, spend_limit, expiry_days, specific_services) ==
    [id |-> id, senior_id |-> "senior", agent_id |-> "agent",
     scope |-> "medical", specific_services |-> specific_services,
     spend_limit |-> spend_limit, expiry_date |-> now + Days(expiry_days),
     created_at |-> now, revoked_at |-> None, is_active |-> TRUE,
     revocation_reason |-> None]

\* lines 94-122: the POA is committed, then its POA_CREATED entry is signed
create_poa(w) ==
    /\ Free(w)
    /\ Len(poas) < MaxPoas
    /\ \E spend_limit \in SpendLimits, expiry_days \in ExpiryDays,
          specific_services \in ServiceLists :
         LET id == Len(poas) + 1
             details == [senior_id |-> "senior", agent_id |-> "agent",
                         scope |-> "medical", spend_limit |-> spend_limit,
                         expiry_days |-> expiry_days]
         IN /\ poas' = Append(poas, POARow(id, spend_limit, expiry_days,
                                           specific_services))
            /\ calls' = [calls EXCEPT ![w] =
                 ThenLog("create_poa", [poa_id |-> id], None,
                         SignedEntry(id, "POA_CREATED", "ALLOWED",
                                     "Smart POA created for {scope} with ${spend_limit} limit",
                                     details, None, None),
                         [kind |-> "returned", poa_id |-> id])]
    /\ served' = served + 1
    /\ UNCHANGED <<now, ticks, audit_logs, events, vault, sentinel>>

-----------------------------------------------------------------------------
(* proxy_vault.py: SmartPOAManager.revoke_poa *)

\* a revocation that also takes the spend limit of the POA down to nothing
revoke_poa_zero_limit(w) ==
    /\ Free(w)
    /\ \E poa_id \in DOMAIN poas :
         /\ poas' = [poas EXCEPT ![poa_id] =
              [@ EXCEPT !.is_active = FALSE, !.revoked_at = Some(now),
                        !.revocation_reason = Some("reason"),
                        !.spend_limit = 0]]
         /\ calls' = [calls EXCEPT ![w] =
              ThenLog("revoke_poa", [poa_id |-> poa_id], Some(poas[poa_id]),
                      SignedEntry(poa_id, "POA_REVOKED", "ALLOWED",
                                  "POA revoked: {reason}",
                                  [revoked_by |-> "family", reason |-> "reason"],
                                  None, None),
                      [kind |-> "returned", success |-> TRUE])]
    /\ served' = served + 1
    /\ UNCHANGED <<now, ticks, audit_logs, events, vault, sentinel>>

\* lines 143-163: the row is updated and committed, then POA_REVOKED is signed
revoke_poa(w) ==
    /\ Free(w)
    /\ \E poa_id \in 1..MaxPoas :
         IF poa_id \notin DOMAIN poas
         THEN /\ calls' = [calls EXCEPT ![w] =
                   Return("revoke_poa", [poa_id |-> poa_id], None,
                          [kind |-> "returned", success |-> FALSE])]
              /\ UNCHANGED poas
         ELSE /\ poas' = [poas EXCEPT ![poa_id] =
                   [@ EXCEPT !.is_active = FALSE,
                             !.revoked_at = Some(now),
                             !.revocation_reason = Some("reason")]]
              /\ calls' = [calls EXCEPT ![w] =
                   ThenLog("revoke_poa", [poa_id |-> poa_id],
                           Some(poas[poa_id]),
                           SignedEntry(poa_id, "POA_REVOKED", "ALLOWED",
                                       "POA revoked: {reason}",
                                       [revoked_by |-> "family",
                                        reason |-> "reason"],
                                       None, None),
                           [kind |-> "returned", success |-> TRUE])]
    /\ served' = served + 1
    /\ UNCHANGED <<now, ticks, audit_logs, events, vault, sentinel>>

-----------------------------------------------------------------------------
(* proxy_vault.py: TokenGatekeeper.validate_request, called by the         *)
(* endpoint proxy_api.py: validate_request                                 *)

\* action.upper()
upper(action) ==
    CASE action = "payment" -> "PAYMENT"
      [] action = "access" -> "ACCESS"
      [] action = "transfer" -> "TRANSFER"

\* a gatekeeper whose answers all say "authorized"
DecisionAuthorizing(authorized, decision, reasoning, violation_type) ==
    [kind |-> "returned", authorized |-> TRUE, decision |-> decision,
     reasoning |-> reasoning, violation_type |-> violation_type,
     audit_log_id |-> None, break_glass_event_id |-> None,
     two_fa_required |-> FALSE, liveness_required |-> FALSE]

\* the dict the gatekeeper returns; the endpoint adds the last three keys
Decision(authorized, decision, reasoning, violation_type) ==
    [kind |-> "returned", authorized |-> authorized, decision |-> decision,
     reasoning |-> reasoning, violation_type |-> violation_type,
     audit_log_id |-> None, break_glass_event_id |-> None,
     two_fa_required |-> FALSE, liveness_required |-> FALSE]

\* break-glass events the requests in flight may still open
PendingEvents ==
    Cardinality({w \in Workers :
        \/ calls[w].pc = "trigger"
        \/ calls[w].pc = "log" /\ Val(calls[w].entry).decision = "BREAK_GLASS"})

EventRoom == Len(events) + PendingEvents < MaxEvents

\* lines 283-367: the POA is loaded and checked, and the audit entry of the
\* branch taken is signed
validate_request(w) ==
    /\ Free(w)
    /\ \E poa_id \in 1..MaxPoas, service_name \in ServiceNames,
          amount \in Amounts, action \in Actions :
         LET args == [poa_id |-> poa_id, service_name |-> service_name,
                      amount |-> amount, action |-> action, at |-> now]
         IN
         IF poa_id \notin DOMAIN poas
         THEN calls' = [calls EXCEPT ![w] =
                  Return("validate_request", args, None,
                         Decision(FALSE, "BLOCKED", "POA not found", None))]
         ELSE
         LET poa == poas[poa_id] IN
         IF ~is_valid(poa, now)
         THEN calls' = [calls EXCEPT ![w] =
                  Return("validate_request", args, Some(poa),
                         Decision(FALSE, "BLOCKED",
                                  "POA is expired or revoked", None))]
         ELSE IF ~is_within_scope(poa, service_name)
         THEN calls' = [calls EXCEPT ![w] =
                  ThenLog("validate_request", args, Some(poa),
                          SignedEntry(poa.id, "SCOPE_VIOLATION", "BLOCKED",
                                      "Service '{service_name}' not in POA scope '{poa.scope}'",
                                      [service_name |-> service_name,
                                       action |-> action,
                                       allowed_services |-> poa.specific_services],
                                      Some(service_name), None),
                          Decision(FALSE, "BLOCKED",
                                   "Service '{service_name}' not authorized. POA scope: {poa.scope}",
                                   Some("SCOPE")))]
         ELSE IF ~IsNone(amount) /\ ~is_within_limit(poa, Val(amount))
         THEN /\ EventRoom
              /\ calls' = [calls EXCEPT ![w] =
                  ThenLog("validate_request", args, Some(poa),
                          SignedEntry(poa.id, "SPEND_LIMIT_EXCEEDED",
                                      "BREAK_GLASS",
                                      "Amount ${amount} exceeds limit ${poa.spend_limit}",
                                      [service_name |-> service_name,
                                       amount |-> amount,
                                       spend_limit |-> poa.spend_limit,
                                       action |-> action],
                                      Some(service_name), amount),
                          Decision(FALSE, "BREAK_GLASS",
                                   "Amount ${amount} exceeds POA limit ${poa.spend_limit}. Break-glass protocol triggered.",
                                   Some("SPEND_LIMIT")))]
         ELSE calls' = [calls EXCEPT ![w] =
                  ThenLog("validate_request", args, Some(poa),
                          SignedEntry(poa.id, "REQUEST_" \o upper(action), "ALLOWED",
                                      "Request authorized for {service_name}",
                                      [service_name |-> service_name,
                                       amount |-> amount, action |-> action],
                                      Some(service_name), amount),
                          Decision(TRUE, "ALLOWED",
                                   "Request within POA scope and limits",
                                   None))]
    /\ served' = served + 1
    /\ UNCHANGED <<now, ticks, poas, audit_logs, events, vault, sentinel>>

-----------------------------------------------------------------------------
(* proxy_vault.py: _create_audit_log, lines 248-252: the entry is          *)
(* persisted and the handler that asked for it goes on.  create_poa,       *)
(* revoke_poa and the gatekeeper's BLOCKED and ALLOWED branches return;    *)
(* the BREAK_GLASS branch returns the entry's id to the endpoint, which    *)
(* goes on to open the break-glass event.                                  *)

create_audit_log(w) ==
    LET c == calls[w]
        id == Len(audit_logs) + 1
    IN
    /\ At(w, "log")
    /\ audit_logs' = Append(audit_logs, AuditRow(Val(c.entry), id, now))
    /\ calls' = [calls EXCEPT ![w] =
         IF c.op = "validate_request" /\ Val(c.ret).decision = "BREAK_GLASS"
         THEN Call(c.op, "trigger", c.args, c.snap, None, None,
                   Some([Val(c.ret) EXCEPT !.audit_log_id = Some(id)]),
                   <<id>>, <<>>, NoResult)
         ELSE Finish(c, <<id>>, <<>>, Val(c.ret))]
    /\ UNCHANGED <<now, ticks, served, poas, events, vault, sentinel>>

\* db.commit() raises (the database is locked or gone): no handler catches
\* it, the session is discarded and the request ends in an error
create_audit_log_fails(w) ==
    /\ At(w, "log")
    /\ calls' = [calls EXCEPT ![w] = Finish(calls[w], <<>>, <<>>, Raised)]
    /\ UNCHANGED <<now, ticks, served, poas, audit_logs, events, vault, sentinel>>

-----------------------------------------------------------------------------
(* proxy_break_glass.py: TwoFactorAuth.  A code is named by the counter    *)
(* of the TOTP window that yields it; NoCode is a string that no window    *)
(* of the secret yields.                                                   *)

NoCode == None

\* generate_code at time t: totp.now()
generate_code(t) == Some(t)

\* verify_code at time t: totp.verify(code, valid_window=1)
verify_code(code, t) == \E k \in {t - 1, t, t + 1} : code = Some(k)

-----------------------------------------------------------------------------
(* proxy_break_glass.py: BreakGlassMonitor.trigger_break_glass, as called  *)
(* by proxy_api.py: validate_request, lines 231-249                        *)

\* an event that is given two hours and is verified by 2FA in any case
BreakGlassEventTwoHours(id, audit_log_id, trigger_reason, trigger_details, require_liveness) ==
    [id |-> id, audit_log_id |-> audit_log_id,
     trigger_reason |-> trigger_reason, trigger_details |-> trigger_details,
     status |-> "PENDING", advocate_id |-> advocate,
     verification_method |-> "2FA",
     two_fa_code |-> generate_code(now), two_fa_sent_at |-> now,
     two_fa_verified_at |-> None,
     liveness_required |-> require_liveness, liveness_verified |-> FALSE,
     liveness_verified_at |-> None,
     approved_at |-> None, approved_by |-> None,
     denied_at |-> None, denied_by |-> None, denial_reason |-> None,
     created_at |-> now, expires_at |-> now + Hours(2)]

\* lines 204-214 with the column defaults of proxy_models.py, lines 136-161
BreakGlassEvent(id, audit_log_id, trigger_reason, trigger_details, require_liveness) ==
    [id |-> id, audit_log_id |-> audit_log_id,
     trigger_reason |-> trigger_reason, trigger_details |-> trigger_details,
     status |-> "PENDING", advocate_id |-> advocate,
     verification_method |-> IF ~require_liveness THEN "2FA" ELSE "BOTH",
     two_fa_code |-> generate_code(now), two_fa_sent_at |-> now,
     two_fa_verified_at |-> None,
     liveness_required |-> require_liveness, liveness_verified |-> FALSE,
     liveness_verified_at |-> None,
     approved_at |-> None, approved_by |-> None,
     denied_at |-> None, denied_by |-> None, denial_reason |-> None,
     created_at |-> now, expires_at |-> now + Hours(1)]

\* a liveness rule that already asks for liveness at 500
require_liveness_from_500(amount) ==
    IF IsNone(amount) \/ Val(amount) = 0 THEN FALSE ELSE Val(amount) >= 500

\* proxy_api.py line 242: request.amount and request.amount > 500
require_liveness(amount) ==
    IF IsNone(amount) \/ Val(amount) = 0 THEN FALSE ELSE Val(amount) > 500

trigger_break_glass(w) ==
    LET c == calls[w]
        id == Len(events) + 1
        amount == c.args.amount
        event == BreakGlassEvent(id, Val(Val(c.ret).audit_log_id),
                                 Val(Val(c.ret).violation_type),
                                 [service_name |-> c.args.service_name,
                                  amount |-> amount,
                                  spend_limit |-> Val(c.snap).spend_limit],
                                 require_liveness(amount))
    IN
    /\ At(w, "trigger")
    /\ events' = Append(events, event)
    /\ calls' = [calls EXCEPT ![w] =
         Finish(c, c.logged, <<id>>,
                [Val(c.ret) EXCEPT !.break_glass_event_id = Some(id),
                                   !.two_fa_required = TRUE,
                                   !.liveness_required = event.liveness_required])]
    /\ UNCHANGED <<now, ticks, served, poas, audit_logs, vault, sentinel>>

\* lines 216-217: db.commit() raises (the database is locked or gone): the
\* event is not persisted, nothing catches the error, and the audit entry
\* that _create_audit_log committed before stays
trigger_break_glass_fails(w) ==
    LET c == calls[w] IN
    /\ At(w, "trigger")
    /\ calls' = [calls EXCEPT ![w] = Finish(c, c.logged, <<>>, Raised)]
    /\ UNCHANGED <<now, ticks, served, poas, audit_logs, events, vault, sentinel>>

\* lines 216-221: the event is committed, then the delivery of a
\* notification raises, and the endpoint with it
send_break_glass_notifications_fails(w) ==
    LET c == calls[w]
        id == Len(events) + 1
        amount == c.args.amount
        event == BreakGlassEvent(id, Val(Val(c.ret).audit_log_id),
                                 Val(Val(c.ret).violation_type),
                                 [service_name |-> c.args.service_name,
                                  amount |-> amount,
                                  spend_limit |-> Val(c.snap).spend_limit],
                                 require_liveness(amount))
    IN
    /\ At(w, "trigger")
    /\ events' = Append(events, event)
    /\ calls' = [calls EXCEPT ![w] = Finish(c, c.logged, <<id>>, Raised)]
    /\ UNCHANGED <<now, ticks, served, poas, audit_logs, vault, sentinel>>

-----------------------------------------------------------------------------
(* A session's unit of work.  The handler assigns attributes of the row    *)
(* it loaded; commit() issues one UPDATE that sets exactly the columns     *)
(* whose assigned value differs from the loaded one, on the row as it is   *)
(* in the table by then.                                                   *)

Changed(snap, assigns) ==
    SelectSeq(assigns, LAMBDA a : snap[a[1]] # a[2])

Written(upd, col) == \E i \in DOMAIN upd : upd[i][1] = col

\* a commit that loses the assigned columns
ApplyNothing(row, upd) == row

\* a commit that writes the status and loses the other assigned columns
ApplyStatusOnly(row, upd) ==
    [col \in DOMAIN row |->
        IF col = "status" /\ Written(upd, col)
        THEN upd[CHOOSE i \in DOMAIN upd : upd[i][1] = col][2]
        ELSE row[col]]

Apply(row, upd) ==
    [col \in DOMAIN row |->
        IF Written(upd, col)
        THEN upd[CHOOSE i \in DOMAIN upd : upd[i][1] = col][2]
        ELSE row[col]]

\* a handler that has assigned columns of the event and goes on to commit
ThenCommit(op, args, snap, assigns, ret) ==
    Call(op, "commit", args, Some(snap), None, Some(Changed(snap, assigns)),
         Some(ret), <<>>, <<>>, NoResult)

-----------------------------------------------------------------------------
(* proxy_models.py: BreakGlassEvent.is_expired at time t *)

\* an expiry check that is one interval late
is_expired_late(event, t) == t > event.expires_at + 1

is_expired(event, t) == t > event.expires_at

-----------------------------------------------------------------------------
(* proxy_break_glass.py: BreakGlassMonitor.verify_2fa *)

\* codes a client may submit: some event's, the current window's, a wrong one
Codes ==
    {NoCode, generate_code(now)}
        \cup {events[i].two_fa_code : i \in DOMAIN events}

Verify2FAResult(verified, error, liveness_required, status) ==
    [kind |-> "returned", verified |-> verified, error |-> error,
     liveness_required |-> liveness_required, status |-> status]

verify_2fa(w) ==
    /\ Free(w)
    /\ \E event_id \in 1..MaxEvents, code \in Codes :
         LET args == [event_id |-> event_id, code |-> code, at |-> now] IN
         IF event_id \notin DOMAIN events
         THEN calls' = [calls EXCEPT ![w] =
                  Return("verify_2fa", args, None,
                         Verify2FAResult(FALSE, Some("Event not found"),
                                         None, None))]
         ELSE
         LET event == events[event_id] IN
         IF event.status # "PENDING"
         THEN calls' = [calls EXCEPT ![w] =
                  Return("verify_2fa", args, Some(event),
                         Verify2FAResult(FALSE, Some("Event status is {event.status}"),
                                         None, None))]
         ELSE IF is_expired(event, now)
         THEN calls' = [calls EXCEPT ![w] =
                  ThenCommit("verify_2fa", args, event,
                             << <<"status", "EXPIRED">> >>,
                             Verify2FAResult(FALSE, Some("Event expired"),
                                             None, None))]
         ELSE IF code = event.two_fa_code \/ verify_code(code, now)
         THEN calls' = [calls EXCEPT ![w] =
                  ThenCommit("verify_2fa", args, event,
                             << <<"two_fa_verified_at", Some(now)>> >>
                             \o (IF ~event.liveness_required
                                 THEN << <<"status", "APPROVED">>,
                                         <<"approved_at", Some(now)>>,
                                         <<"approved_by", Some(event.advocate_id)>> >>
                                 ELSE <<>>),
                             Verify2FAResult(TRUE, None, None, None))]
         ELSE calls' = [calls EXCEPT ![w] =
                  Return("verify_2fa", args, Some(event),
                         Verify2FAResult(FALSE, Some("Invalid 2FA code"),
                                         None, None))]
    /\ served' = served + 1
    /\ UNCHANGED <<now, ticks, poas, audit_logs, events, vault, sentinel>>

-----------------------------------------------------------------------------
(* proxy_break_glass.py: LivenessVerification and                          *)
(* BreakGlassMonitor.verify_liveness.  Confidences are in hundredths.      *)

verification_threshold == 85
face_confidence == 92
voice_confidence == 89

verify_face == [kind |-> "returned",
                verified |-> face_confidence >= verification_threshold,
                confidence |-> face_confidence, error |-> None]

verify_voice == [kind |-> "returned",
                 verified |-> voice_confidence >= verification_threshold,
                 confidence |-> voice_confidence, error |-> None]

\* an error result that tells the caller the check succeeded
LivenessErrorVerified(error) ==
    [kind |-> "returned", verified |-> TRUE, confidence |-> 0,
     error |-> Some(error)]

LivenessError(error) ==
    [kind |-> "returned", verified |-> FALSE, confidence |-> 0,
     error |-> Some(error)]

verify_liveness(w) ==
    /\ Free(w)
    /\ \E event_id \in 1..MaxEvents, method \in {"face", "voice"} :
         LET args == [event_id |-> event_id, method |-> method, at |-> now] IN
         IF event_id \notin DOMAIN events
         THEN calls' = [calls EXCEPT ![w] =
                  Return("verify_liveness", args, None,
                         LivenessError("Event not found"))]
         ELSE
         LET event == events[event_id]
             result == IF method = "face" THEN verify_face ELSE verify_voice
         IN
         IF ~event.liveness_required
         THEN calls' = [calls EXCEPT ![w] =
                  Return("verify_liveness", args, Some(event),
                         LivenessError("Liveness not required"))]
         ELSE IF IsNone(event.two_fa_verified_at)
         THEN calls' = [calls EXCEPT ![w] =
                  Return("verify_liveness", args, Some(event),
                         LivenessError("2FA verification required first"))]
         ELSE IF result.verified
         THEN calls' = [calls EXCEPT ![w] =
                  ThenCommit("verify_liveness", args, event,
                             << <<"liveness_verified", TRUE>>,
                                <<"liveness_verified_at", Some(now)>>,
                                <<"status", "APPROVED">>,
                                <<"approved_at", Some(now)>>,
                                <<"approved_by", Some(event.advocate_id)>> >>,
                             result)]
         ELSE calls' = [calls EXCEPT ![w] =
                  Return("verify_liveness", args, Some(event), result)]
    /\ served' = served + 1
    /\ UNCHANGED <<now, ticks, poas, audit_logs, events, vault, sentinel>>

-----------------------------------------------------------------------------
(* proxy_break_glass.py: BreakGlassMonitor.deny_break_glass *)

DenyResult(success, error, status) ==
    [kind |-> "returned", success |-> success, error |-> error,
     status |-> status]

deny_break_glass(w) ==
    /\ Free(w)
    /\ \E event_id \in 1..MaxEvents :
         LET args == [event_id |-> event_id, denied_by |-> "family",
                      reason |-> "reason", at |-> now] IN
         IF event_id \notin DOMAIN events
         THEN calls' = [calls EXCEPT ![w] =
                  Return("deny_break_glass", args, None,
                         DenyResult(FALSE, Some("Event not found"), None))]
         ELSE calls' = [calls EXCEPT ![w] =
                  ThenCommit("deny_break_glass", args, events[event_id],
                             << <<"status", "DENIED">>,
                                <<"denied_at", Some(now)>>,
                                <<"denied_by", Some(args.denied_by)>>,
                                <<"denial_reason", Some(args.reason)>> >>,
                             DenyResult(TRUE, None, Some("DENIED")))]
    /\ served' = served + 1
    /\ UNCHANGED <<now, ticks, poas, audit_logs, events, vault, sentinel>>

-----------------------------------------------------------------------------
(* self.db.commit() of the three break-glass handlers, and their return.   *)
(* verify_2fa reads event.liveness_required and event.status after the     *)
(* commit, which reloads the row.                                          *)

commit_event(w) ==
    LET c == calls[w]
        id == c.args.event_id
        row == Apply(events[id], Val(c.upd))
    IN
    /\ At(w, "commit")
    /\ events' = [events EXCEPT ![id] = row]
    /\ calls' = [calls EXCEPT ![w] =
         Finish(c, <<>>, <<>>,
                IF c.op = "verify_2fa" /\ Val(c.ret).verified
                THEN [Val(c.ret) EXCEPT
                         !.liveness_required = Some(row.liveness_required),
                         !.status = Some(row.status)]
                ELSE Val(c.ret))]
    /\ UNCHANGED <<now, ticks, served, poas, audit_logs, vault, sentinel>>

-----------------------------------------------------------------------------
(* proxy_vault.py: VaultEncryption and the token vault.  Every request     *)
(* builds a SmartPOAManager of its own, and with it a VaultEncryption:     *)
(* the cipher key is VAULT_ENCRYPTION_KEY if the environment sets it, and  *)
(* a key generated for this one instance if it does not.  A key is a       *)
(* number: 0 is the environment's, 1, 2, ... are generated ones.  A        *)
(* Fernet token is modelled as the pair of the key and the plaintext.      *)

MaxTokens == 1

Plaintexts == {"token-a", "token-b"}
\* StoreTokenRequest.expires_in_seconds
ExpiresIn == {None, Some(0), Some(interval)}

\* VaultEncryption.__init__, lines 28-36: the key of a new instance
cipher_key == IF IsNone(env_key) THEN keys + 1 ELSE Val(env_key)

\* VaultEncryption.encrypt_token
encrypt_token(key, token) == [key |-> key, token |-> token]

\* VaultEncryption.decrypt_token: Fernet raises InvalidToken on another key
decrypt_token(key, encrypted_token) ==
    IF encrypted_token.key = key
    THEN [kind |-> "returned", token |-> Some(encrypted_token.token)]
    ELSE Raised

\* lines 178-180: `if expires_in_seconds:` is false for None and for 0
token_expires_at(expires_in_seconds) ==
    IF IsNone(expires_in_seconds) \/ Val(expires_in_seconds) = 0
    THEN None
    ELSE Some(now + Val(expires_in_seconds) \div interval)

\* lines 206: the token is expired at time t
token_expired(token_record, t) ==
    ~IsNone(token_record.expires_at) /\ Val(token_record.expires_at) < t

\* SmartPOAManager.store_oauth_token, through the endpoint /tokens/store
store_oauth_token(w) ==
    /\ Free(w)
    /\ Len(tokens) < MaxTokens
    /\ \E poa_id \in 1..MaxPoas, token \in Plaintexts,
          expires_in_seconds \in ExpiresIn :
         LET id == Len(tokens) + 1 IN
         /\ tokens' = Append(tokens,
                [id |-> id, poa_id |-> poa_id, service_name |-> "plaid",
                 token_type |-> "access",
                 encrypted_token |-> encrypt_token(cipher_key, token),
                 expires_at |-> token_expires_at(expires_in_seconds),
                 created_at |-> now, last_used |-> None])
         /\ calls' = [calls EXCEPT ![w] =
              Return("store_oauth_token",
                     [poa_id |-> poa_id, token |-> token,
                      expires_in_seconds |-> expires_in_seconds, at |-> now],
                     None,
                     [kind |-> "returned", success |-> TRUE,
                      token_id |-> id])]
    /\ keys' = IF IsNone(env_key) THEN keys + 1 ELSE keys
    /\ served' = served + 1
    /\ UNCHANGED <<now, ticks, poas, audit_logs, events, env_key,
                   sentinel>>

\* what get_decrypted_token returns when it has no plaintext to give
NoToken == [kind |-> "returned", token |-> None]

\* SmartPOAManager.get_decrypted_token, lines 198-210: the token is loaded,
\* checked for expiry, and last_used is assigned
get_decrypted_token(w) ==
    /\ Free(w)
    /\ \E token_id \in 1..MaxTokens :
         LET args == [token_id |-> token_id, key |-> cipher_key, at |-> now]
         IN
         IF token_id \notin DOMAIN tokens
         THEN calls' = [calls EXCEPT ![w] =
                  Return("get_decrypted_token", args, None, NoToken)]
         ELSE
         LET token_record == tokens[token_id] IN
         IF token_expired(token_record, now)
         THEN calls' = [calls EXCEPT ![w] =
                  Return("get_decrypted_token", args, Some(token_record),
                         NoToken)]
         ELSE calls' = [calls EXCEPT ![w] =
                  Call("get_decrypted_token", "commit_token", args,
                       Some(token_record), None,
                       Some(Changed(token_record,
                                    << <<"last_used", Some(now)>> >>)),
                       None, <<>>, <<>>, NoResult)]
    /\ keys' = IF IsNone(env_key) THEN keys + 1 ELSE keys
    /\ served' = served + 1
    /\ UNCHANGED <<now, ticks, poas, audit_logs, events, tokens, env_key,
                   sentinel>>

\* lines 211-213: last_used is committed, then the token is decrypted with
\* the key of this request's VaultEncryption
commit_token(w) ==
    LET c == calls[w]
        id == c.args.token_id
    IN
    /\ At(w, "commit_token")
    /\ tokens' = [tokens EXCEPT ![id] = Apply(tokens[id], Val(c.upd))]
    /\ calls' = [calls EXCEPT ![w] =
         Finish(c, <<>>, <<>>,
                decrypt_token(c.args.key, tokens[id].encrypted_token))]
    /\ UNCHANGED <<now, ticks, served, poas, audit_logs, events, env_key,
                   keys, sentinel>>

-----------------------------------------------------------------------------
(* proxy_audit.py: FiduciaryLogger.get_logs_by_poa and export_logs_json,   *)
(* through the endpoint /audit/export/{poa_id}.  The ledger is filled by   *)
(* authorized requests that are served one after the other.                *)

MaxLogs == 102

\* get_logs_by_poa, line 95: limit: int = 100
limit == 100

\* query.limit(n)
limit_to(rows, n) == SubSeq(rows, 1, IF n < Len(rows) THEN n ELSE Len(rows))

\* ORDER BY timestamp DESC puts a before b; the order of two rows of one
\* timestamp is the engine's, by id one way or the other
goes_before(a, b, ties_by_id_desc) ==
    \/ a.timestamp > b.timestamp
    \/ /\ a.timestamp = b.timestamp
       /\ IF ties_by_id_desc THEN a.id > b.id ELSE a.id < b.id

\* query.order_by(AuditLog.timestamp.desc()) on the first n rows
RECURSIVE order_by_timestamp_desc(_, _, _)
order_by_timestamp_desc(rows, n, ties_by_id_desc) ==
    IF n = 0 THEN <<>>
    ELSE LET sorted == order_by_timestamp_desc(rows, n - 1, ties_by_id_desc)
             row == rows[n]
             p == Cardinality({k \in DOMAIN sorted :
                      goes_before(sorted[k], row, ties_by_id_desc)})
         IN SubSeq(sorted, 1, p) \o <<row>> \o SubSeq(sorted, p + 1, Len(sorted))

\* lines 98-106: the rows of the POA, filtered, newest first, at most limit
get_logs_by_poa(poa_id, action_type, decision, n, ties_by_id_desc) ==
    LET rows == SelectSeq(audit_logs, LAMBDA log :
                    /\ log.poa_id = poa_id
                    /\ IsNone(action_type) \/ log.action_type = Val(action_type)
                    /\ IsNone(decision) \/ log.decision = Val(decision))
    IN limit_to(order_by_timestamp_desc(rows, Len(rows), ties_by_id_desc), n)

\* lines 116-130: what the export says of one row
ExportedLog(log) ==
    [id |-> log.id, action_type |-> log.action_type,
     timestamp |-> log.timestamp, decision |-> log.decision,
     reasoning |-> log.reasoning, request_details |-> log.request_details,
     service_name |-> log.service_name, amount |-> log.amount,
     signature |-> log.signature, advocate_notified |-> log.advocate_notified]

\* lines 108-133: export_logs_json(poa_id).  The export writes nothing, so
\* it is not counted among the requests that the model serves.
export_logs_json(w) ==
    /\ Free(w)
    /\ \E poa_id \in DOMAIN poas, ties_by_id_desc \in BOOLEAN :
         LET logs == get_logs_by_poa(poa_id, None, None, limit, ties_by_id_desc)
         IN calls' = [calls EXCEPT ![w] =
                Return("export_logs_json", [poa_id |-> poa_id, at |-> now],
                       None,
                       [kind |-> "returned", poa_id |-> poa_id,
                        export_timestamp |-> now, total_logs |-> Len(logs),
                        logs |-> [k \in DOMAIN logs |-> ExportedLog(logs[k])]])]
    /\ UNCHANGED <<now, ticks, served, poas, audit_logs, events, vault,
                   sentinel>>

\* proxy_vault.py, lines 283-374 and 215-252: a request on the first POA
\* for a service in scope and an amount within the limit, served from
\* beginning to end while no other request is: its ALLOWED entry is appended
authorized_request ==
    LET poa == poas[1]
        id == Len(audit_logs) + 1
    IN
    /\ \A w \in Workers : calls[w].pc = "idle"
    /\ Len(audit_logs) < MaxLogs
    /\ \E service_name \in ServiceNames, action \in Actions :
         /\ is_valid(poa, now)
         /\ is_within_scope(poa, service_name)
         /\ is_within_limit(poa, poa.spend_limit)
         /\ audit_logs' = Append(audit_logs,
              AuditRow(SignedEntry(poa.id, "REQUEST_" \o upper(action),
                                   "ALLOWED",
                                   "Request authorized for {service_name}",
                                   [service_name |-> service_name,
                                    amount |-> Some(poa.spend_limit),
                                    action |-> action],
                                   Some(service_name), Some(poa.spend_limit)),
                       id, now))
    /\ UNCHANGED <<now, ticks, served, poas, events, calls, vault, sentinel>>

-----------------------------------------------------------------------------
(* Text.  A Python str is the sequence of its characters, so that lower(), *)
(* replace() and the `in` of two strings are computed as Python computes   *)
(* them.                                                                   *)

UpperCase ==
    <<"A", "B", "C", "D", "E", "F", "G", "H", "I", "J", "K", "L", "M",
      "N", "O", "P", "Q", "R", "S", "T", "U", "V", "W", "X", "Y", "Z">>
LowerCase ==
    <<"a", "b", "c", "d", "e", "f", "g", "h", "i", "j", "k", "l", "m",
      "n", "o", "p", "q", "r", "s", "t", "u", "v", "w", "x", "y", "z">>

\* str.lower()
lower(s) ==
    [i \in DOMAIN s |->
        IF \E k \in DOMAIN UpperCase : UpperCase[k] = s[i]
        THEN LowerCase[CHOOSE k \in DOMAIN UpperCase : UpperCase[k] = s[i]]
        ELSE s[i]]

\* str.replace(old, new) for single characters
replace(s, old, new) == [i \in DOMAIN s |-> IF s[i] = old THEN new ELSE s[i]]

\* sub in s
contains(sub, s) ==
    \E i \in 1..(Len(s) - Len(sub) + 1) :
        \A k \in DOMAIN sub : s[i + k - 1] = sub[k]

-----------------------------------------------------------------------------
(* transaction_governor.py: ContextAwareGovernor.  Amounts are in cents    *)
(* (the dollar amounts of the requests have two decimals), a time of day   *)
(* is in seconds since midnight.                                           *)

Dollars(d) == d * 100
TimeOfDay(h, m, s) == (h * 60 + m) * 60 + s

HIGH_AMOUNT_THRESHOLD == Dollars(200)
ODD_HOURS_START == TimeOfDay(23, 0, 0)
ODD_HOURS_END == TimeOfDay(5, 0, 0)

HIGH_RISK_CATEGORIES ==
    {<<"e", "l", "e", "c", "t", "r", "o", "n", "i", "c", "s">>,
     <<"w", "i", "r", "e", "_", "t", "r", "a", "n", "s", "f", "e", "r">>,
     <<"c", "r", "y", "p", "t", "o", "c", "u", "r", "r", "e", "n", "c", "y">>,
     <<"g", "i", "f", "t", "_", "c", "a", "r", "d", "s">>,
     <<"c", "a", "s", "h", "_", "a", "d", "v", "a", "n", "c", "e">>,
     <<"g", "a", "m", "b", "l", "i", "n", "g">>,
     <<"i", "n", "t", "e", "r", "n", "a", "t", "i", "o", "n", "a", "l", "_", "t", "r", "a", "n", "s", "f", "e", "r">>}

MEDIUM_RISK_CATEGORIES ==
    {<<"j", "e", "w", "e", "l", "r", "y">>,
     <<"l", "u", "x", "u", "r", "y", "_", "g", "o", "o", "d", "s">>,
     <<"t", "r", "a", "v", "e", "l">>,
     <<"o", "n", "l", "i", "n", "e", "_", "s", "h", "o", "p", "p", "i", "n", "g">>}

\* odd hours that end before 05:00 strikes
is_odd_hours_before_end(t) == t >= ODD_HOURS_START \/ t < ODD_HOURS_END

\* _is_odd_hours, on transaction_time.time()
is_odd_hours(t) ==
    IF ODD_HOURS_START > ODD_HOURS_END
    THEN t >= ODD_HOURS_START \/ t <= ODD_HOURS_END
    ELSE ODD_HOURS_START <= t /\ t <= ODD_HOURS_END

\* name in flags
Flagged(flags, name) == \E i \in DOMAIN flags : flags[i] = name

\* a level mapping for which a score of 70 is not yet HIGH
determine_risk_and_status_above_70(risk_score, flags) ==
    IF /\ Flagged(flags, "HIGH_AMOUNT")
       /\ Flagged(flags, "ODD_HOURS")
       /\ Flagged(flags, "HIGH_RISK_CATEGORY")
    THEN [risk_level |-> "CRITICAL", status |-> "PENDING_APPROVAL",
          reasoning |-> "CRITICAL RISK TRANSACTION"]
    ELSE IF risk_score > 70
    THEN [risk_level |-> "HIGH", status |-> "PENDING_APPROVAL",
          reasoning |-> "HIGH RISK TRANSACTION"]
    ELSE IF risk_score >= 40
    THEN [risk_level |-> "MEDIUM", status |-> "PENDING_APPROVAL",
          reasoning |-> "MEDIUM RISK TRANSACTION"]
    ELSE [risk_level |-> "LOW", status |-> "APPROVED",
          reasoning |-> "LOW RISK TRANSACTION"]

\* _determine_risk_and_status: the tuple (risk_level, status, reasoning);
\* the reasoning is named by the text it starts with
determine_risk_and_status(risk_score, flags) ==
    IF /\ Flagged(flags, "HIGH_AMOUNT")
       /\ Flagged(flags, "ODD_HOURS")
       /\ Flagged(flags, "HIGH_RISK_CATEGORY")
    THEN [risk_level |-> "CRITICAL", status |-> "PENDING_APPROVAL",
          reasoning |-> "CRITICAL RISK TRANSACTION"]
    ELSE IF risk_score >= 70
    THEN [risk_level |-> "HIGH", status |-> "PENDING_APPROVAL",
          reasoning |-> "HIGH RISK TRANSACTION"]
    ELSE IF risk_score >= 40
    THEN [risk_level |-> "MEDIUM", status |-> "PENDING_APPROVAL",
          reasoning |-> "MEDIUM RISK TRANSACTION"]
    ELSE [risk_level |-> "LOW", status |-> "APPROVED",
          reasoning |-> "LOW RISK TRANSACTION"]

\* one rule of analyze_transaction: flags.append(name); risk_score += weight
Rule(applies, name, weight) ==
    IF applies THEN [flags |-> <<name>>, risk_score |-> weight]
    ELSE [flags |-> <<>>, risk_score |-> 0]

\* a cap that starts again from 0 where it is reached
Wrapped(a, b) == b % a

Min(a, b) == IF a <= b THEN a ELSE b

\* analyze_transaction, lines 64-119
analyze_transaction(amount, transaction_time, category, merchant) ==
    LET is_high_amount == amount > HIGH_AMOUNT_THRESHOLD
        is_odd_time == is_odd_hours(transaction_time)
        category_lower == replace(lower(category), " ", "_")
        is_high_risk_category == category_lower \in HIGH_RISK_CATEGORIES
        is_medium_risk_category == category_lower \in MEDIUM_RISK_CATEGORIES
        rules ==
            <<Rule(is_high_amount, "HIGH_AMOUNT", 30),
              Rule(is_odd_time, "ODD_HOURS", 25),
              IF is_high_risk_category
              THEN Rule(TRUE, "HIGH_RISK_CATEGORY", 35)
              ELSE Rule(is_medium_risk_category, "MEDIUM_RISK_CATEGORY", 15),
              Rule(amount > Dollars(1000), "VERY_HIGH_AMOUNT", 20),
              Rule(contains(<<"a", "t", "m">>, lower(merchant)) /\ is_odd_time,
                   "ODD_HOURS_ATM", 15)>>
        flags == rules[1].flags \o rules[2].flags \o rules[3].flags
                 \o rules[4].flags \o rules[5].flags
        risk_score == rules[1].risk_score + rules[2].risk_score
                      + rules[3].risk_score + rules[4].risk_score
                      + rules[5].risk_score
        determined == determine_risk_and_status(risk_score, flags)
    IN [risk_level |-> determined.risk_level,
        risk_score |-> Min(100, risk_score),
        status |-> determined.status,
        flags |-> flags,
        reasoning |-> determined.reasoning,
        requires_approval |-> determined.status = "PENDING_APPROVAL",
        timestamp |-> now,
        transaction_details |->
            [amount |-> amount, time |-> transaction_time,
             category |-> category, merchant |-> merchant]]

\* the transactions the governor is asked about
GovernorAmounts ==
    {0, Dollars(200), Dollars(200) + 1, Dollars(1000), Dollars(1000) + 1}
TimesOfDay ==
    {TimeOfDay(0, 0, 0), TimeOfDay(5, 0, 0), TimeOfDay(5, 0, 1),
     TimeOfDay(14, 0, 0), TimeOfDay(22, 59, 59), TimeOfDay(23, 0, 0)}
GovernorCategories ==
    {<<"G", "r", "o", "c", "e", "r", "i", "e", "s">>,
     <<"G", "i", "f", "t", " ", "C", "a", "r", "d", "s">>,
     <<"g", "i", "f", "t", "_", "c", "a", "r", "d", "s">>,
     <<"G", "A", "M", "B", "L", "I", "N", "G">>,
     <<"g", "i", "f", "t", "-", "c", "a", "r", "d", "s">>,
     <<"O", "n", "l", "i", "n", "e", " ", "S", "h", "o", "p", "p", "i", "n", "g">>,
     <<"t", "r", "a", "v", "e", "l">>}
GovernorMerchants ==
    {<<"W", "a", "l", "m", "a", "r", "t">>,
     <<"C", "h", "a", "s", "e", " ", "A", "T", "M">>,
     <<"B", "o", "a", "t", "m", "a", "n">>}

NoTransaction == [amount |-> 0]

\* the governor is asked about the transaction
apply_analyze_transaction ==
    /\ tx # NoTransaction
    /\ IsNone(analysis)
    /\ analysis' = Some(analyze_transaction(tx.amount, tx.transaction_time,
                                            tx.category, tx.merchant))
    /\ UNCHANGED <<now, ticks, served, poas, audit_logs, events, calls, vault,
                   webhook, security_logs, tx, transcript, reports>>

-----------------------------------------------------------------------------
(* sentinel_analyzer.py: AgenticScamAnalyzer.  A pattern r"\b(a|b|...)\b" *)
(* is held as its text and the set of its alternatives, which are plain    *)
(* text that starts and ends with a letter.                                *)

SCAM_INDICATORS ==
    <<
      [category |-> "urgency", weight |-> 25,
       patterns |-> <<
          [regex |-> "\\b(urgent|emergency|immediately|right now|asap|hurry)\\b",
           alternatives |->
                 {<<"u", "r", "g", "e", "n", "t">>,
                  <<"e", "m", "e", "r", "g", "e", "n", "c", "y">>,
                  <<"i", "m", "m", "e", "d", "i", "a", "t", "e", "l", "y">>,
                  <<"r", "i", "g", "h", "t", " ", "n", "o", "w">>,
                  <<"a", "s", "a", "p">>,
                  <<"h", "u", "r", "r", "y">>}],
          [regex |-> "\\b(act now|time sensitive|limited time)\\b",
           alternatives |->
                 {<<"a", "c", "t", " ", "n", "o", "w">>,
                  <<"t", "i", "m", "e", " ", "s", "e", "n", "s", "i", "t", "i", "v", "e">>,
                  <<"l", "i", "m", "i", "t", "e", "d", " ", "t", "i", "m", "e">>}],
          [regex |-> "\\b(before it's too late|last chance)\\b",
           alternatives |->
                 {<<"b", "e", "f", "o", "r", "e", " ", "i", "t", "'", "s", " ", "t", "o", "o", " ", "l", "a", "t", "e">>,
                  <<"l", "a", "s", "t", " ", "c", "h", "a", "n", "c", "e">>}]>>],
      [category |-> "gift_cards", weight |-> 35,
       patterns |-> <<
          [regex |-> "\\b(gift card|gift|card|itunes|google play|steam|amazon card)\\b",
           alternatives |->
                 {<<"g", "i", "f", "t", " ", "c", "a", "r", "d">>,
                  <<"g", "i", "f", "t">>,
                  <<"c", "a", "r", "d">>,
                  <<"i", "t", "u", "n", "e", "s">>,
                  <<"g", "o", "o", "g", "l", "e", " ", "p", "l", "a", "y">>,
                  <<"s", "t", "e", "a", "m">>,
                  <<"a", "m", "a", "z", "o", "n", " ", "c", "a", "r", "d">>}],
          [regex |-> "\\b(prepaid card|reload|redeem)\\b",
           alternatives |->
                 {<<"p", "r", "e", "p", "a", "i", "d", " ", "c", "a", "r", "d">>,
                  <<"r", "e", "l", "o", "a", "d">>,
                  <<"r", "e", "d", "e", "e", "m">>}],
          [regex |-> "\\b(scratch off|activation code)\\b",
           alternatives |->
                 {<<"s", "c", "r", "a", "t", "c", "h", " ", "o", "f", "f">>,
                  <<"a", "c", "t", "i", "v", "a", "t", "i", "o", "n", " ", "c", "o", "d", "e">>}]>>],
      [category |-> "authority_impersonation", weight |-> 30,
       patterns |-> <<
          [regex |-> "\\b(irs|internal revenue|tax|government|federal)\\b",
           alternatives |->
                 {<<"i", "r", "s">>,
                  <<"i", "n", "t", "e", "r", "n", "a", "l", " ", "r", "e", "v", "e", "n", "u", "e">>,
                  <<"t", "a", "x">>,
                  <<"g", "o", "v", "e", "r", "n", "m", "e", "n", "t">>,
                  <<"f", "e", "d", "e", "r", "a", "l">>}],
          [regex |-> "\\b(social security|medicare|medicaid)\\b",
           alternatives |->
                 {<<"s", "o", "c", "i", "a", "l", " ", "s", "e", "c", "u", "r", "i", "t", "y">>,
                  <<"m", "e", "d", "i", "c", "a", "r", "e">>,
                  <<"m", "e", "d", "i", "c", "a", "i", "d">>}],
          [regex |-> "\\b(police|sheriff|officer|detective|fbi|dea)\\b",
           alternatives |->
                 {<<"p", "o", "l", "i", "c", "e">>,
                  <<"s", "h", "e", "r", "i", "f", "f">>,
                  <<"o", "f", "f", "i", "c", "e", "r">>,
                  <<"d", "e", "t", "e", "c", "t", "i", "v", "e">>,
                  <<"f", "b", "i">>,
                  <<"d", "e", "a">>}],
          [regex |-> "\\b(warrant|arrest|legal action|lawsuit)\\b",
           alternatives |->
                 {<<"w", "a", "r", "r", "a", "n", "t">>,
                  <<"a", "r", "r", "e", "s", "t">>,
                  <<"l", "e", "g", "a", "l", " ", "a", "c", "t", "i", "o", "n">>,
                  <<"l", "a", "w", "s", "u", "i", "t">>}],
          [regex |-> "\\b(bank|account frozen|suspicious activity)\\b",
           alternatives |->
                 {<<"b", "a", "n", "k">>,
                  <<"a", "c", "c", "o", "u", "n", "t", " ", "f", "r", "o", "z", "e", "n">>,
                  <<"s", "u", "s", "p", "i", "c", "i", "o", "u", "s", " ", "a", "c", "t", "i", "v", "i", "t", "y">>}]>>],
      [category |-> "payment_pressure", weight |-> 20,
       patterns |-> <<
          [regex |-> "\\b(pay now|send money|wire transfer|western union)\\b",
           alternatives |->
                 {<<"p", "a", "y", " ", "n", "o", "w">>,
                  <<"s", "e", "n", "d", " ", "m", "o", "n", "e", "y">>,
                  <<"w", "i", "r", "e", " ", "t", "r", "a", "n", "s", "f", "e", "r">>,
                  <<"w", "e", "s", "t", "e", "r", "n", " ", "u", "n", "i", "o", "n">>}],
          [regex |-> "\\b(cash|bitcoin|cryptocurrency|venmo|zelle)\\b",
           alternatives |->
                 {<<"c", "a", "s", "h">>,
                  <<"b", "i", "t", "c", "o", "i", "n">>,
                  <<"c", "r", "y", "p", "t", "o", "c", "u", "r", "r", "e", "n", "c", "y">>,
                  <<"v", "e", "n", "m", "o">>,
                  <<"z", "e", "l", "l", "e">>}],
          [regex |-> "\\b(penalty|fine|fee|charge|owe)\\b",
           alternatives |->
                 {<<"p", "e", "n", "a", "l", "t", "y">>,
                  <<"f", "i", "n", "e">>,
                  <<"f", "e", "e">>,
                  <<"c", "h", "a", "r", "g", "e">>,
                  <<"o", "w", "e">>}]>>],
      [category |-> "personal_info_request", weight |-> 25,
       patterns |-> <<
          [regex |-> "\\b(social security number|ssn|account number|password)\\b",
           alternatives |->
                 {<<"s", "o", "c", "i", "a", "l", " ", "s", "e", "c", "u", "r", "i", "t", "y", " ", "n", "u", "m", "b", "e", "r">>,
                  <<"s", "s", "n">>,
                  <<"a", "c", "c", "o", "u", "n", "t", " ", "n", "u", "m", "b", "e", "r">>,
                  <<"p", "a", "s", "s", "w", "o", "r", "d">>}],
          [regex |-> "\\b(pin|verification code|security code)\\b",
           alternatives |->
                 {<<"p", "i", "n">>,
                  <<"v", "e", "r", "i", "f", "i", "c", "a", "t", "i", "o", "n", " ", "c", "o", "d", "e">>,
                  <<"s", "e", "c", "u", "r", "i", "t", "y", " ", "c", "o", "d", "e">>}],
          [regex |-> "\\b(date of birth|mother's maiden name)\\b",
           alternatives |->
                 {<<"d", "a", "t", "e", " ", "o", "f", " ", "b", "i", "r", "t", "h">>,
                  <<"m", "o", "t", "h", "e", "r", "'", "s", " ", "m", "a", "i", "d", "e", "n", " ", "n", "a", "m", "e">>}]>>],
      [category |-> "family_emergency", weight |-> 30,
       patterns |-> <<
          [regex |-> "\\b(grandchild|grandson|granddaughter|nephew|niece)\\b",
           alternatives |->
                 {<<"g", "r", "a", "n", "d", "c", "h", "i", "l", "d">>,
                  <<"g", "r", "a", "n", "d", "s", "o", "n">>,
                  <<"g", "r", "a", "n", "d", "d", "a", "u", "g", "h", "t", "e", "r">>,
                  <<"n", "e", "p", "h", "e", "w">>,
                  <<"n", "i", "e", "c", "e">>}],
          [regex |-> "\\b(accident|hospital|jail|arrested|trouble)\\b",
           alternatives |->
                 {<<"a", "c", "c", "i", "d", "e", "n", "t">>,
                  <<"h", "o", "s", "p", "i", "t", "a", "l">>,
                  <<"j", "a", "i", "l">>,
                  <<"a", "r", "r", "e", "s", "t", "e", "d">>,
                  <<"t", "r", "o", "u", "b", "l", "e">>}],
          [regex |-> "\\b(bail|lawyer|attorney|legal fees)\\b",
           alternatives |->
                 {<<"b", "a", "i", "l">>,
                  <<"l", "a", "w", "y", "e", "r">>,
                  <<"a", "t", "t", "o", "r", "n", "e", "y">>,
                  <<"l", "e", "g", "a", "l", " ", "f", "e", "e", "s">>}]>>]>>

Digits == <<"0", "1", "2", "3", "4", "5", "6", "7", "8", "9">>

\* \w of the regular expressions
is_word(c) ==
    \/ \E k \in DOMAIN LowerCase : LowerCase[k] = c
    \/ \E k \in DOMAIN UpperCase : UpperCase[k] = c
    \/ \E k \in DOMAIN Digits : Digits[k] = c
    \/ c = "_"

\* the alternative occurs in s at position i, between two word boundaries
occurs_at(alternative, s, i) ==
    LET end == i + Len(alternative) - 1 IN
    /\ \A k \in DOMAIN alternative : s[i + k - 1] = alternative[k]
    /\ i = 1 \/ ~is_word(s[i - 1])
    /\ end = Len(s) \/ ~is_word(s[end + 1])

\* re.search(pattern, s, re.IGNORECASE) on a string that is in lower case
search(pattern, s) ==
    \E alternative \in pattern.alternatives :
        \E i \in 1..(Len(s) - Len(alternative) + 1) :
            occurs_at(alternative, s, i)

\* an inner loop without its break: one indicator for every pattern that
\* matches
category_indicators_no_break(config, s) ==
    LET hit(k) == IF search(config.patterns[k], s)
                  THEN <<[category |-> config.category,
                          pattern |-> config.patterns[k].regex,
                          weight |-> config.weight]>>
                  ELSE <<>>
        all[k \in 0..Len(config.patterns)] ==
            IF k = 0 THEN <<>> ELSE all[k - 1] \o hit(k)
    IN all[Len(config.patterns)]

\* lines 96-104, the inner loop: the indicator of the first pattern of the
\* category that matches, and then the break
category_indicators(config, s) ==
    LET hits == {k \in DOMAIN config.patterns : search(config.patterns[k], s)}
    IN IF hits = {} THEN <<>>
       ELSE LET first == CHOOSE k \in hits : \A j \in hits : k <= j
            IN <<[category |-> config.category,
                  pattern |-> config.patterns[first].regex,
                  weight |-> config.weight]>>

\* _determine_action: the tuple (action, reasoning); the reasoning is named
\* by the text it starts with
determine_action(score) ==
    IF score > 80
    THEN [action |-> "INTERVENE_AND_BLOCK",
          reasoning |-> "CRITICAL THREAT DETECTED"]
    ELSE IF score > 50
    THEN [action |-> "ACTIVATE_ANSWER_BOT",
          reasoning |-> "SUSPICIOUS ACTIVITY DETECTED"]
    ELSE [action |-> "ALLOW", reasoning |-> "LOW RISK"]

\* lines 93-107: total_score, one weight per indicator, brought to 0-100
fraud_score(indicators) ==
    LET sum[k \in 0..Len(indicators)] ==
            IF k = 0 THEN 0 ELSE sum[k - 1] + indicators[k].weight
    IN Min(100, sum[Len(indicators)])

llm_enabled == FALSE

\* analyze, lines 89-119
analyze(transcript_text) ==
    LET transcript_lower == lower(transcript_text)
        detected[k \in 0..Len(SCAM_INDICATORS)] ==
            IF k = 0 THEN <<>>
            ELSE detected[k - 1]
                 \o category_indicators(SCAM_INDICATORS[k], transcript_lower)
        detected_indicators == detected[Len(SCAM_INDICATORS)]
        score == fraud_score(detected_indicators)
        determined == determine_action(score)
    IN [fraud_score |-> score,
        indicators |-> detected_indicators,
        action |-> determined.action,
        reasoning |-> determined.reasoning,
        timestamp |-> now,
        analysis_method |-> IF llm_enabled THEN "LLM" ELSE "RULE_BASED"]

\* What the callers say.  A transcript is made of up to MaxPhrases of these
\* sentences, one after the other.
MaxPhrases == 2
MaxRuns == 2

Phrases ==
    <<<<"H", "e", "l", "l", "o", ",", " ", "h", "o", "w", " ", "a", "r", "e", " ", "y", "o", "u", " ", "t", "o", "d", "a", "y", "?">>,
      <<"T", "h", "i", "s", " ", "i", "s", " ", "U", "R", "G", "E", "N", "T", ".">>,
      <<"R", "e", "a", "d", " ", "m", "e", " ", "y", "o", "u", "r", " ", "P", "I", "N", ".">>,
      <<"B", "u", "y", " ", "t", "h", "r", "e", "e", " ", "g", "i", "f", "t", " ", "c", "a", "r", "d", "s", ".">>,
      <<"T", "h", "e", " ", "I", "R", "S", " ", "h", "a", "s", " ", "a", " ", "w", "a", "r", "r", "a", "n", "t", ",", " ", "a", "c", "t", " ", "n", "o", "w", "!">>,
      <<"Y", "o", "u", "r", " ", "g", "r", "a", "n", "d", "s", "o", "n", " ", "h", "a", "d", " ", "a", "n", " ", "a", "c", "c", "i", "d", "e", "n", "t", " ", "a", "n", "d", " ", "n", "e", "e", "d", "s", " ", "b", "a", "i", "l", ":", " ", "g", "i", "f", "t", " ", "c", "a", "r", "d", "s", ",", " ", "u", "r", "g", "e", "n", "t", ",", " ", "w", "e", "s", "t", "e", "r", "n", " ", "u", "n", "i", "o", "n", ".">>,
      <<"S", "e", "n", "d", " ", "t", "h", "e", " ", "f", "e", "e", " ", "i", "n", " ", "c", "a", "s", "h", ".">>,
      <<"W", "e", " ", "d", "i", "s", "c", "a", "r", "d", "e", "d", " ", "t", "h", "e", " ", "g", "i", "f", "t", "s", " ", "u", "r", "g", "e", "n", "t", "l", "y", ".">>>>

RECURSIVE Spoken(_)
Spoken(said) ==
    IF said = <<>> THEN <<>>
    ELSE Phrases[Head(said)]
         \o (IF Len(said) = 1 THEN <<>> ELSE <<" ">> \o Spoken(Tail(said)))

Transcripts ==
    {Spoken(said) :
        said \in UNION {[1..n -> DOMAIN Phrases] : n \in 0..MaxPhrases}}

\* the analyzer is run on the transcript
apply_analyze ==
    /\ Len(reports) < MaxRuns
    /\ reports' = Append(reports, analyze(transcript))
    /\ served' = served + 1
    /\ UNCHANGED <<now, ticks, poas, audit_logs, events, calls, vault,
                   webhook, security_logs, tx, analysis, transcript>>

-----------------------------------------------------------------------------
(* virtual_card_manager.py and card_auth_service.py: the authorization     *)
(* webhook of the card network.  The handler is a coroutine that does not  *)
(* yield once it has read the request: the requests are served one after   *)
(* the other.                                                              *)

MaxWebhooks == 1

\* card_auth_service.py line 88
webhook_secret == "your_webhook_secret_here"

\* hmac.new(key, payload, hashlib.sha256).hexdigest(): a str.  The digest
\* is the string of one element that names key and payload; the empty
\* string is the string of no element.
hexdigest(key, payload) == <<[key |-> key, message |-> payload]>>

\* VirtualCardManager.verify_webhook_signature
verify_webhook_signature(payload, signature, secret) ==
    LET expected_signature == hexdigest(secret, payload)
    IN signature = expected_signature

\* _mcc_to_category
mcc_to_category(mcc) ==
    CASE mcc = "5732" -> <<"E", "l", "e", "c", "t", "r", "o", "n", "i", "c", "s">>
      [] mcc = "5734" -> <<"E", "l", "e", "c", "t", "r", "o", "n", "i", "c", "s">>
      [] mcc = "5411" -> <<"G", "r", "o", "c", "e", "r", "i", "e", "s">>
      [] mcc = "5422" -> <<"G", "r", "o", "c", "e", "r", "i", "e", "s">>
      [] mcc = "5812" -> <<"R", "e", "s", "t", "a", "u", "r", "a", "n", "t", "s">>
      [] mcc = "5814" -> <<"R", "e", "s", "t", "a", "u", "r", "a", "n", "t", "s">>
      [] mcc = "4829" -> <<"W", "i", "r", "e", " ", "T", "r", "a", "n", "s", "f", "e", "r">>
      [] mcc = "6051" -> <<"C", "r", "y", "p", "t", "o", "c", "u", "r", "r", "e", "n", "c", "y">>
      [] mcc = "5945" -> <<"G", "i", "f", "t", " ", "C", "a", "r", "d", "s">>
      [] mcc = "5999" -> <<"M", "i", "s", "c", "e", "l", "l", "a", "n", "e", "o", "u", "s">>
      [] OTHER -> <<"O", "t", "h", "e", "r">>

\* _get_senior_from_card
get_senior_from_card(card_token) == "senior_001"

\* a decision matrix that declines outright only above a score of 90
make_decision_above_90(risk_analysis) ==
    IF risk_analysis.risk_score > 90 \/ risk_analysis.risk_level = "CRITICAL"
    THEN "DECLINED"
    ELSE IF risk_analysis.risk_score >= 70 \/ risk_analysis.risk_level = "HIGH"
    THEN "PENDING_ADVOCATE"
    ELSE "APPROVED"

\* _make_decision: the AuthDecision
make_decision(risk_analysis) ==
    IF risk_analysis.risk_score >= 90 \/ risk_analysis.risk_level = "CRITICAL"
    THEN "DECLINED"
    ELSE IF risk_analysis.risk_score >= 70 \/ risk_analysis.risk_level = "HIGH"
    THEN "PENDING_ADVOCATE"
    ELSE "APPROVED"

\* The amounts of cents c below one dollar for which the float c / 100,
\* multiplied by 100 again, is below c.
LossyCents == {29, 57, 58}

\* int((cents / 100) * 100), lines 209 and 258: the float arithmetic is
\* exact for the other amounts of the requests
back_to_cents(cents) == IF cents \in LossyCents THEN cents - 1 ELSE cents

\* datetime.fromisoformat(auth_request.get("created", utcnow().isoformat()))
\* followed by .time(): the time of day of the request, the reading of the
\* clock if the request names none, no value if the text is not ISO 8601
Unparsable == [iso |-> FALSE]
parse_created(created, clock) ==
    IF IsNone(created) THEN Some(clock)
    ELSE IF ~Val(created).iso THEN None
    ELSE Some(Val(created).time)

\* authorize_transaction, lines 209-285, for a request whose `created` gave
\* the time of day transaction_time
authorize_transaction(auth_request, transaction_time) ==
    LET amount == auth_request.amount
        category == mcc_to_category(auth_request.merchant.mcc)
        risk_analysis ==
            analyze_transaction(amount, transaction_time, category,
                                auth_request.merchant.descriptor)
        decision == make_decision(risk_analysis)
    IN IF decision = "APPROVED"
       THEN [result |-> "APPROVED", amount |-> back_to_cents(amount),
             metadata |-> [risk_score |-> risk_analysis.risk_score,
                           sentinel_approved |-> TRUE]]
       ELSE IF decision = "DECLINED"
       THEN [result |-> "DECLINED", amount |-> back_to_cents(amount),
             metadata |-> [risk_score |-> risk_analysis.risk_score,
                           decline_reason |-> risk_analysis.reasoning,
                           sentinel_blocked |-> TRUE]]
       ELSE [result |-> "DECLINED", amount |-> back_to_cents(amount),
             metadata |-> [risk_score |-> risk_analysis.risk_score,
                           pending_advocate_approval |-> TRUE,
                           reasoning |-> "High-risk transaction requires Trusted Advocate approval"]]

\* the requests of the card network, and of those who pose as it
CardAmounts == {29, Dollars(250), Dollars(1300) - 1}
CardMccs == {"5411", "5732", "7011"}
CardDescriptors ==
    {<<"B", "E", "S", "T", " ", "B", "U", "Y">>,
     <<"C", "h", "a", "s", "e", " ", "A", "T", "M">>}
CardCreated ==
    {None, Some(Unparsable),
     Some([iso |-> TRUE, time |-> TimeOfDay(14, 0, 0)]),
     Some([iso |-> TRUE, time |-> TimeOfDay(23, 30, 0)])}
CardClocks == {TimeOfDay(14, 0, 0)}

AuthRequests ==
    [token : {"auth_abc123"}, card_token : {"card_xyz789"},
     amount : CardAmounts,
     merchant : [descriptor : CardDescriptors, mcc : CardMccs],
     created : CardCreated]

\* the X-Lithic-Signature header that may come with a body: none, the empty
\* string, the digest under the provider's secret, or a digest under a key
\* of the sender's own
Signatures(body) ==
    {None, Some(<<>>), Some(hexdigest(webhook_secret, body)),
     Some(hexdigest("not the secret", body))}

NoWebhook ==
    [pc |-> "idle", body |-> None, signature |-> None, decision |-> None,
     logged |-> None, response |-> None]

\* raise HTTPException(status_code=401, detail="Invalid signature")
Unauthenticated == [status_code |-> 401, detail |-> "Invalid signature"]
\* an exception that nothing handles: the framework answers 500
ServerError == [status_code |-> 500, detail |-> "Internal Server Error"]
\* return decision
Ok(decision) ==
    [status_code |-> 200, result |-> decision.result,
     amount |-> decision.amount, metadata |-> decision.metadata]

\* card_authorization_webhook, lines 84-110: the signature is verified if
\* there is one, and the request is put before the governor
card_authorization_webhook ==
    /\ webhook.pc = "idle"
    /\ served < MaxWebhooks
    /\ \E body \in AuthRequests, clock \in CardClocks :
       \E x_lithic_signature \in Signatures(body) :
         LET received == [NoWebhook EXCEPT !.body = Some(body),
                                           !.signature = x_lithic_signature]
             signature_is_valid ==
                 verify_webhook_signature(body, Val(x_lithic_signature),
                                          webhook_secret)
             transaction_time == parse_created(body.created, clock)
         IN
         IF ~IsNone(x_lithic_signature) /\ Val(x_lithic_signature) # <<>>
            /\ ~signature_is_valid
         THEN webhook' = [received EXCEPT !.pc = "done",
                                          !.response = Some(Unauthenticated)]
         ELSE IF IsNone(transaction_time)
         THEN webhook' = [received EXCEPT !.pc = "done",
                                          !.response = Some(ServerError)]
         ELSE webhook' =
                [received EXCEPT
                    !.pc = "log",
                    !.decision = Some(authorize_transaction(
                                          body, Val(transaction_time)))]
    /\ served' = served + 1
    /\ UNCHANGED <<now, ticks, poas, audit_logs, events, calls, vault,
                   security_logs, tx, analysis, transcript, reports>>

\* lines 115-135: the SecurityLog of the authorization
SecurityLog(id, auth_request, decision) ==
    [id |-> id, event_type |-> "CARD_AUTHORIZATION", timestamp |-> now,
     transaction_amount |-> auth_request.amount,
     transaction_time |-> now,
     transaction_category |-> mcc_to_category(auth_request.merchant.mcc),
     merchant |-> auth_request.merchant.descriptor,
     risk_level |-> decision.metadata.risk_score,
     approval_status |-> decision.result,
     reasoning |-> IF "decline_reason" \in DOMAIN decision.metadata
                   THEN decision.metadata.decline_reason
                   ELSE "Approved by Sentinel",
     user_id |-> get_senior_from_card(auth_request.card_token),
     event_metadata |-> [auth_token |-> auth_request.token,
                         card_token |-> auth_request.card_token,
                         merchant_mcc |-> auth_request.merchant.mcc]]

\* lines 113-151: the log is added and committed, and the decision returned
log_authorization ==
    /\ webhook.pc = "log"
    /\ LET id == Len(security_logs) + 1 IN
       /\ security_logs' =
              Append(security_logs,
                     SecurityLog(id, Val(webhook.body), Val(webhook.decision)))
       /\ webhook' = [webhook EXCEPT
                         !.pc = "done", !.logged = Some(id),
                         !.response = Some(Ok(Val(webhook.decision)))]
    /\ UNCHANGED <<now, ticks, served, poas, audit_logs, events, calls, vault,
                   tx, analysis, transcript, reports>>

\* lines 142-151: the commit raises; the handler prints the error, closes
\* the session and returns the decision
log_authorization_fails ==
    /\ webhook.pc = "log"
    /\ webhook' = [webhook EXCEPT
                      !.pc = "done",
                      !.response = Some(Ok(Val(webhook.decision)))]
    /\ UNCHANGED <<now, ticks, served, poas, audit_logs, events, calls, vault,
                   security_logs, tx, analysis, transcript, reports>>

\* the response is on its way to the card network
respond_webhook ==
    /\ webhook.pc = "done"
    /\ webhook' = NoWebhook
    /\ UNCHANGED <<now, ticks, served, poas, audit_logs, events, calls, vault,
                   security_logs, tx, analysis, transcript, reports>>

-----------------------------------------------------------------------------

Init ==
    /\ now = 0
    /\ ticks = 0
    /\ served = 0
    /\ poas = <<>>
    /\ audit_logs = <<>>
    /\ events = <<>>
    /\ calls = [w \in Workers |-> Idle]
    /\ tokens = <<>>
    /\ env_key = None
    /\ keys = 0
    /\ webhook = NoWebhook
    /\ security_logs = <<>>
    /\ tx = NoTransaction
    /\ analysis = None
    /\ transcript = <<>>
    /\ reports = <<>>

\* The clock advances by one TOTP interval, or by a little more than an hour.
\* Time 0 is the time of the first request: what the handlers do depends on
\* differences of clock readings only.
Tick ==
    /\ ticks < MaxTicks
    /\ served > 0
    /\ ~Returning
    /\ \E d \in {1, Hours(1) + 1} : now' = now + d
    /\ ticks' = ticks + 1
    /\ UNCHANGED <<served, poas, audit_logs, events, calls, vault, sentinel>>

\* the handler's return value goes out to the client and the thread is free
respond(w) ==
    /\ calls[w].pc = "done"
    /\ calls' = [calls EXCEPT ![w] = Idle]
    /\ UNCHANGED <<now, ticks, served, poas, audit_logs, events, vault, sentinel>>

Next ==
    \/ Tick
    \/ \E w \in Workers : create_poa(w)
    \/ \E w \in Workers : revoke_poa(w)
    \/ \E w \in Workers : validate_request(w)
    \/ \E w \in Workers : create_audit_log(w)
    \/ \E w \in Workers : create_audit_log_fails(w)
    \/ \E w \in Workers : trigger_break_glass(w)
    \/ \E w \in Workers : verify_2fa(w)
    \/ \E w \in Workers : verify_liveness(w)
    \/ \E w \in Workers : deny_break_glass(w)
    \/ \E w \in Workers : commit_event(w)
    \/ \E w \in Workers : respond(w)

Spec == Init /\ [][Next]_vars

-----------------------------------------------------------------------------
(* The token vault with the POA registry: the process is started with or   *)
(* without VAULT_ENCRYPTION_KEY in its environment.                        *)

InitVault ==
    /\ now = 0
    /\ ticks = 0
    /\ served = 0
    /\ poas = <<>>
    /\ audit_logs = <<>>
    /\ events = <<>>
    /\ calls = [w \in Workers |-> Idle]
    /\ tokens = <<>>
    /\ env_key \in {None, Some(0)}
    /\ keys = 0
    /\ webhook = NoWebhook
    /\ security_logs = <<>>
    /\ tx = NoTransaction
    /\ analysis = None
    /\ transcript = <<>>
    /\ reports = <<>>

NextVault ==
    \/ Tick
    \/ \E w \in Workers : create_poa(w)
    \/ \E w \in Workers : revoke_poa(w)
    \/ \E w \in Workers : create_audit_log(w)
    \/ \E w \in Workers : store_oauth_token(w)
    \/ \E w \in Workers : get_decrypted_token(w)
    \/ \E w \in Workers : commit_token(w)
    \/ \E w \in Workers : respond(w)

SpecVault == InitVault /\ [][NextVault]_vars

-----------------------------------------------------------------------------
(* The transaction governor on its own: it is asked about one transaction. *)

InitGovernor ==
    /\ now = 0
    /\ ticks = 0
    /\ served = 0
    /\ poas = <<>>
    /\ audit_logs = <<>>
    /\ events = <<>>
    /\ calls = [w \in Workers |-> Idle]
    /\ tokens = <<>>
    /\ env_key = None
    /\ keys = 0
    /\ webhook = NoWebhook
    /\ security_logs = <<>>
    /\ tx \in [amount : GovernorAmounts, transaction_time : TimesOfDay,
               category : GovernorCategories, merchant : GovernorMerchants]
    /\ analysis = None
    /\ transcript = <<>>
    /\ reports = <<>>

NextGovernor == apply_analyze_transaction

SpecGovernor == InitGovernor /\ [][NextGovernor]_vars

-----------------------------------------------------------------------------
(* The scam analyzer on its own: it is run on one transcript, and run      *)
(* again, while the clock goes on.                                         *)

InitScam ==
    /\ now = 0
    /\ ticks = 0
    /\ served = 0
    /\ poas = <<>>
    /\ audit_logs = <<>>
    /\ events = <<>>
    /\ calls = [w \in Workers |-> Idle]
    /\ tokens = <<>>
    /\ env_key = None
    /\ keys = 0
    /\ webhook = NoWebhook
    /\ security_logs = <<>>
    /\ tx = NoTransaction
    /\ analysis = None
    /\ transcript \in Transcripts
    /\ reports = <<>>

NextScam ==
    \/ Tick
    \/ apply_analyze

SpecScam == InitScam /\ [][NextScam]_vars

-----------------------------------------------------------------------------
(* The card authorization service. *)

NextCard ==
    \/ card_authorization_webhook
    \/ log_authorization
    \/ log_authorization_fails
    \/ respond_webhook

SpecCard == Init /\ [][NextCard]_vars

-----------------------------------------------------------------------------
(* The gatekeeper and the opening of break-glass events, on a database     *)
(* and a transport that may fail while an event is opened.                 *)

NextFaulty ==
    \/ Tick
    \/ \E w \in Workers : create_poa(w)
    \/ \E w \in Workers : validate_request(w)
    \/ \E w \in Workers : create_audit_log(w)
    \/ \E w \in Workers : trigger_break_glass(w)
    \/ \E w \in Workers : trigger_break_glass_fails(w)
    \/ \E w \in Workers : send_break_glass_notifications_fails(w)
    \/ \E w \in Workers : respond(w)

SpecFaulty == Init /\ [][NextFaulty]_vars

-----------------------------------------------------------------------------
(* The export of the audit trail.  Two POAs have been created, each with   *)
(* its POA_CREATED entry in the ledger; requests on the first fill the     *)
(* ledger, and the trail of either is exported.                            *)

CreatedPoa(id) == POARow(id, 200, 30, None)

CreatedLog(id) ==
    AuditRow(SignedEntry(id, "POA_CREATED", "ALLOWED",
                         "Smart POA created for {scope} with ${spend_limit} limit",
                         [senior_id |-> "senior", agent_id |-> "agent",
                          scope |-> "medical", spend_limit |-> 200,
                          expiry_days |-> 30],
                         None, None),
             id, now)

InitExport ==
    /\ now = 0
    /\ ticks = 0
    /\ served = 0
    /\ poas = <<CreatedPoa(1), CreatedPoa(2)>>
    /\ audit_logs = <<CreatedLog(1), CreatedLog(2)>>
    /\ events = <<>>
    /\ calls = [w \in Workers |-> Idle]
    /\ tokens = <<>>
    /\ env_key = None
    /\ keys = 0
    /\ webhook = NoWebhook
    /\ security_logs = <<>>
    /\ tx = NoTransaction
    /\ analysis = None
    /\ transcript = <<>>
    /\ reports = <<>>

NextExport ==
    \/ authorized_request
    \/ \E w \in Workers : export_logs_json(w)
    \/ \E w \in Workers : respond(w)

SpecExport == InitExport /\ [][NextExport]_vars

-----------------------------------------------------------------------------
(* What the claims speak of *)

Terminal == {"APPROVED", "DENIED", "EXPIRED"}

\* the call of thread w is returning to its client (or raising) right now
Done(w, op) == calls[w].pc = "done" /\ calls[w].op = op
Returned(w, op) == Done(w, op) /\ calls[w].result.kind = "returned"

\* the POA the validate call of thread w loaded, if it found one
FoundPoa(w) == ~IsNone(calls[w].snap)
Poa(w) == Val(calls[w].snap)

\* the POA the call loaded was valid when the call was made
ValidAtCall(w) ==
    /\ Poa(w).is_active
    /\ IsNone(Poa(w).revoked_at)
    /\ calls[w].args.at < Poa(w).expiry_date

\* the service the call asks for is within the allowed services of its POA
InScopeAtCall(w) ==
    LET allowed == Poa(w).specific_services IN
    \/ IsNone(allowed)
    \/ Len(Val(allowed)) = 0
    \/ \E i \in 1..Len(Val(allowed)) : Val(allowed)[i] = calls[w].args.service_name

\* the call names an amount, and it is above the POA's spend limit
OverLimitAtCall(w) ==
    /\ ~IsNone(calls[w].args.amount)
    /\ Val(calls[w].args.amount) > Poa(w).spend_limit

\* the audit entries the call appended, as they are in the table
Logged(w) == [i \in DOMAIN calls[w].logged |-> audit_logs[calls[w].logged[i]]]

-----------------------------------------------------------------------------
\* C1: the status of a break-glass event only moves from PENDING to
\* APPROVED, DENIED or EXPIRED, and once it is terminal no later call
\* changes the status or any other field of the event.
C1_TerminalIsFinal ==
    [][\A e \in DOMAIN events :
          events[e].status \in Terminal => events'[e] = events[e]]_vars

-----------------------------------------------------------------------------
\* C2: once revoke has set revoked_at on a POA, every later validate call
\* on it (one that loads the POA with revoked_at set) returns at once, with
\* decision BLOCKED and authorized = false.
C2_RevokedIsBlocked ==
    \A w \in Workers :
        (calls[w].op = "validate_request" /\ FoundPoa(w)
            /\ ~IsNone(Poa(w).revoked_at))
        => /\ Returned(w, "validate_request")
           /\ calls[w].result.decision = "BLOCKED"
           /\ calls[w].result.authorized = FALSE

C2_Witness ==
    \E w \in Workers :
        /\ Returned(w, "validate_request")
        /\ FoundPoa(w)
        /\ ~IsNone(Poa(w).revoked_at)
        /\ Poa(w).expiry_date > now
        /\ calls[w].result.decision = "BLOCKED"

-----------------------------------------------------------------------------
\* C3: every persisted audit entry verifies: recomputing the MAC over the
\* stored poa_id, action_type, timestamp, decision and request_details
\* gives the stored signature, also when the clock advanced between
\* signing and persisting.
C3_EveryEntryVerifies ==
    \A id \in DOMAIN audit_logs : verify_log_signature(id)

-----------------------------------------------------------------------------
\* C4: every decision that validate returns for an existing POA is returned
\* after exactly one audit entry carrying that decision was appended for
\* the call.
C4_OneEntryPerDecision ==
    \A w \in Workers :
        (Returned(w, "validate_request") /\ FoundPoa(w))
        => /\ Len(calls[w].logged) = 1
           /\ Logged(w)[1].decision = calls[w].result.decision

-----------------------------------------------------------------------------
\* C5: validate on a POA that is not valid returns authorized = false and
\* BLOCKED with reasoning "... expired or revoked", and an audit entry
\* POA_INVALID / BLOCKED is recorded for the call.
C5_InvalidPoaBlockedAndLogged ==
    \A w \in Workers :
        (Done(w, "validate_request") /\ FoundPoa(w) /\ ~ValidAtCall(w))
        => /\ calls[w].result.kind = "returned"
           /\ calls[w].result.authorized = FALSE
           /\ calls[w].result.decision = "BLOCKED"
           /\ calls[w].result.reasoning = "POA is expired or revoked"
           /\ \E i \in DOMAIN calls[w].logged :
                 /\ Logged(w)[i].decision = "BLOCKED"
                 /\ Logged(w)[i].action_type = "POA_INVALID"

-----------------------------------------------------------------------------
C6_WitnessEmpty ==
    \E w \in Workers :
        /\ Returned(w, "validate_request")
        /\ FoundPoa(w)
        /\ Poa(w).specific_services = Some(<<>>)
        /\ calls[w].result.decision = "ALLOWED"

-----------------------------------------------------------------------------
\* C7: validate on a valid, in-scope POA with an amount greater than the
\* spend limit returns authorized = false, BREAK_GLASS and violation_type
\* SPEND_LIMIT, appends a SPEND_LIMIT_EXCEEDED / BREAK_GLASS entry, opens
\* one PENDING break-glass event bound to that entry, returns the event's
\* id, and reports liveness_required = true exactly when amount > 500.
C7_OverLimitBreaksGlass ==
    \A w \in Workers :
        (Returned(w, "validate_request") /\ FoundPoa(w) /\ ValidAtCall(w)
            /\ InScopeAtCall(w) /\ OverLimitAtCall(w))
        => /\ calls[w].result.authorized = FALSE
           /\ calls[w].result.decision = "BREAK_GLASS"
           /\ calls[w].result.violation_type = Some("SPEND_LIMIT")
           /\ Len(calls[w].logged) = 1
           /\ Logged(w)[1].action_type = "SPEND_LIMIT_EXCEEDED"
           /\ Logged(w)[1].decision = "BREAK_GLASS"
           /\ calls[w].result.audit_log_id = Some(calls[w].logged[1])
           /\ Len(calls[w].opened) = 1
           /\ calls[w].result.break_glass_event_id = Some(calls[w].opened[1])
           /\ events[calls[w].opened[1]].status = "PENDING"
           /\ events[calls[w].opened[1]].audit_log_id = calls[w].logged[1]
           /\ Cardinality({e \in DOMAIN events :
                  events[e].audit_log_id = calls[w].logged[1]}) = 1
           /\ calls[w].result.liveness_required
                 = (Val(calls[w].args.amount) > 500)
           /\ events[calls[w].opened[1]].liveness_required
                 = (Val(calls[w].args.amount) > 500)

\* an amount of exactly 500 over the limit: an event, and no liveness
C7_Witness ==
    \E w \in Workers :
        /\ Returned(w, "validate_request")
        /\ FoundPoa(w)
        /\ calls[w].args.amount = Some(500)
        /\ calls[w].result.decision = "BREAK_GLASS"
        /\ Len(calls[w].opened) = 1
        /\ ~calls[w].result.liveness_required

\* an amount above 500: an event with liveness required
C7_WitnessLiveness ==
    \E w \in Workers :
        /\ Returned(w, "validate_request")
        /\ calls[w].args.amount = Some(501)
        /\ calls[w].result.decision = "BREAK_GLASS"
        /\ calls[w].result.liveness_required

-----------------------------------------------------------------------------
\* C8: validate returns authorized = true (ALLOWED, with an audit entry
\* REQUEST_<ACTION> / ALLOWED) if and only if the POA exists, is valid at
\* the time of the call, the service is in scope, and the amount is absent
\* or at most the spend limit; in every other case authorized is false.
RequestType(action) ==
    CASE action = "payment" -> "REQUEST_PAYMENT"
      [] action = "access" -> "REQUEST_ACCESS"
      [] action = "transfer" -> "REQUEST_TRANSFER"

C8_AuthorizedIff ==
    \A w \in Workers :
        Returned(w, "validate_request")
        => /\ calls[w].result.authorized \in BOOLEAN
           /\ calls[w].result.authorized
                <=> (/\ FoundPoa(w)
                     /\ ValidAtCall(w)
                     /\ InScopeAtCall(w)
                     /\ ~OverLimitAtCall(w))
           /\ calls[w].result.authorized
                => /\ calls[w].result.decision = "ALLOWED"
                   /\ Len(calls[w].logged) = 1
                   /\ Logged(w)[1].action_type
                         = RequestType(calls[w].args.action)
                   /\ Logged(w)[1].decision = "ALLOWED"

\* an amount equal to the spend limit is authorized
C8_Witness ==
    \E w \in Workers :
        /\ Returned(w, "validate_request")
        /\ FoundPoa(w)
        /\ calls[w].args.amount = Some(Poa(w).spend_limit)
        /\ calls[w].result.authorized
        /\ Logged(w)[1].action_type = "REQUEST_PAYMENT"

-----------------------------------------------------------------------------
\* C9: if the ledger append fails during validate, the call returns a
\* BLOCKED decision ("ledger unavailable") instead of ALLOWED or
\* BREAK_GLASS, and no break-glass event is opened for that call.
C9_FailedAppendBlocks ==
    [][\A w \in Workers :
          (calls[w].op = "validate_request" /\ create_audit_log_fails(w))
          => /\ calls'[w].pc = "done"
             /\ calls'[w].result.kind = "returned"
             /\ calls'[w].result.decision = "BLOCKED"
             /\ calls'[w].opened = <<>>
             /\ events' = events]_vars

-----------------------------------------------------------------------------
\* C10: when two break-glass operations run concurrently on the same
\* PENDING event, exactly one terminal transition takes effect: once an
\* operation that found the event PENDING has committed, the event never
\* carries both the approval fields and the denial fields.
BreakGlassOps == {"verify_2fa", "verify_liveness", "deny_break_glass"}

Approval(e) == ~IsNone(events[e].approved_at) /\ ~IsNone(events[e].approved_by)
Denial(e) == ~IsNone(events[e].denied_at) /\ ~IsNone(events[e].denied_by)

C10_OneTransitionWins ==
    \A w \in Workers :
        (/\ calls[w].pc = "done"
         /\ calls[w].op \in BreakGlassOps
         /\ ~IsNone(calls[w].snap)
         /\ Val(calls[w].snap).status = "PENDING")
        => ~(Approval(calls[w].args.event_id) /\ Denial(calls[w].args.event_id))

-----------------------------------------------------------------------------
\* C11: validate's (read POA, evaluate, append) is atomic with respect to
\* other operations on the POA: no REQUEST_* / ALLOWED entry of a POA is
\* appended after the POA's POA_REVOKED entry, and the ids of the entries
\* are strictly increasing in append order.
C11_NoAllowedAfterRevoked ==
    \A i, j \in DOMAIN audit_logs :
        i < j
        => /\ audit_logs[i].id < audit_logs[j].id
           /\ ~(/\ audit_logs[i].poa_id = audit_logs[j].poa_id
                /\ audit_logs[i].action_type = "POA_REVOKED"
                /\ audit_logs[j].action_type
                      \in {RequestType(a) : a \in Actions}
                /\ audit_logs[j].decision = "ALLOWED")

-----------------------------------------------------------------------------
(* The steps of a break-glass call, as the claims speak of them *)

\* thread w takes a new request for the operation in this step
Takes(w, op) == calls[w].pc = "idle" /\ calls'[w].op = op

\* thread w commits the columns its handler assigned, and returns
Commits(w, op) ==
    calls[w].op = op /\ calls[w].pc = "commit" /\ calls'[w].pc = "done"

\* the event the call of c loaded was PENDING and, at the time of the call,
\* not past its expires_at
FoundPending(c) == ~IsNone(c.snap) /\ Val(c.snap).status = "PENDING"
PastExpiry(c) == c.args.at > Val(c.snap).expires_at

-----------------------------------------------------------------------------
\* C12: verify_2fa with the event's code on a PENDING, unexpired event sets
\* two_fa_verified_at; if the event does not require liveness it becomes
\* APPROVED with approved_at set and approved_by = advocate_id; if it
\* requires liveness, verify_2fa leaves the status as it is and only a
\* successful verify_liveness makes the event APPROVED.
C12_CorrectCodeApproves ==
    [][/\ \A w \in Workers :
            (/\ Takes(w, "verify_2fa")
             /\ FoundPending(calls'[w])
             /\ ~PastExpiry(calls'[w])
             /\ calls'[w].args.code = Val(calls'[w].snap).two_fa_code)
            => calls'[w].pc = "commit"
       /\ \A w \in Workers :
            (/\ Commits(w, "verify_2fa")
             /\ FoundPending(calls[w])
             /\ ~PastExpiry(calls[w])
             /\ calls[w].args.code = Val(calls[w].snap).two_fa_code)
            => LET id == calls[w].args.event_id IN
               /\ calls'[w].result.verified = TRUE
               /\ ~IsNone(events'[id].two_fa_verified_at)
               /\ IF ~events[id].liveness_required
                  THEN /\ events'[id].status = "APPROVED"
                       /\ events'[id].approved_at = Some(calls[w].args.at)
                       /\ events'[id].approved_by
                             = Some(events[id].advocate_id)
                       /\ calls'[w].result.status = Some("APPROVED")
                  ELSE /\ events'[id].status = events[id].status
                       /\ events'[id].approved_at = events[id].approved_at
                       /\ events'[id].approved_by = events[id].approved_by
                       /\ calls'[w].result.liveness_required = Some(TRUE)
       /\ \A e \in DOMAIN events :
            (/\ events[e].liveness_required
             /\ events[e].status # "APPROVED"
             /\ events'[e].status = "APPROVED")
            => \E w \in Workers : Commits(w, "verify_liveness")]_vars

\* the code of an event without liveness has been accepted: APPROVED
C12_Witness ==
    \E w \in Workers :
        /\ Done(w, "verify_2fa")
        /\ FoundPending(calls[w])
        /\ calls[w].args.code = Val(calls[w].snap).two_fa_code
        /\ calls[w].result.verified = TRUE
        /\ ~events[calls[w].args.event_id].liveness_required
        /\ events[calls[w].args.event_id].status = "APPROVED"

\* the code of an event with liveness has been accepted: still PENDING
C12_WitnessLiveness ==
    \E w \in Workers :
        /\ Done(w, "verify_2fa")
        /\ calls[w].result.verified = TRUE
        /\ events[calls[w].args.event_id].liveness_required
        /\ events[calls[w].args.event_id].status = "PENDING"
        /\ ~IsNone(events[calls[w].args.event_id].two_fa_verified_at)

-----------------------------------------------------------------------------
\* C13: verify_2fa on a PENDING event after its expires_at makes the event
\* EXPIRED and grants no approval, even if the submitted code is correct:
\* two_fa_verified_at, approved_at and approved_by are left as they were.
C13_LateCodeExpires ==
    [][/\ \A w \in Workers :
            (/\ Takes(w, "verify_2fa")
             /\ FoundPending(calls'[w])
             /\ PastExpiry(calls'[w]))
            => calls'[w].pc = "commit"
       /\ \A w \in Workers :
            (/\ Commits(w, "verify_2fa")
             /\ FoundPending(calls[w])
             /\ PastExpiry(calls[w]))
            => LET id == calls[w].args.event_id IN
               /\ events'[id].status = "EXPIRED"
               /\ events'[id].two_fa_verified_at
                     = events[id].two_fa_verified_at
               /\ events'[id].approved_at = events[id].approved_at
               /\ events'[id].approved_by = events[id].approved_by
               /\ calls'[w].result.verified = FALSE
               /\ calls'[w].result.error = Some("Event expired")]_vars

\* the event's own code, submitted too late
C13_Witness ==
    \E w \in Workers :
        /\ Done(w, "verify_2fa")
        /\ FoundPending(calls[w])
        /\ PastExpiry(calls[w])
        /\ calls[w].args.code = Val(calls[w].snap).two_fa_code
        /\ events[calls[w].args.event_id].status = "EXPIRED"
        /\ IsNone(events[calls[w].args.event_id].approved_at)
        /\ IsNone(events[calls[w].args.event_id].two_fa_verified_at)

-----------------------------------------------------------------------------
\* C14: expiry is enforced on every break-glass operation: a verify_2fa,
\* verify_liveness or deny call made on a PENDING event after its
\* expires_at makes the event EXPIRED, never APPROVED or DENIED.
C14_ExpiryOnEveryOperation ==
    [][\A w \in Workers :
          (/\ \E op \in BreakGlassOps : Commits(w, op)
           /\ FoundPending(calls[w])
           /\ PastExpiry(calls[w]))
          => events'[calls[w].args.event_id].status = "EXPIRED"]_vars

-----------------------------------------------------------------------------
\* C15: repeating a break-glass operation on an event that is already
\* terminal mutates nothing: a second deny on a DENIED event does not
\* overwrite denied_at, denied_by or denial_reason, a verify_liveness on an
\* APPROVED event and a verify_2fa on a non-PENDING event change no field.
Repeats(c) ==
    /\ ~IsNone(c.snap)
    /\ \/ c.op = "deny_break_glass" /\ Val(c.snap).status = "DENIED"
       \/ c.op = "verify_liveness" /\ Val(c.snap).status = "APPROVED"
       \/ c.op = "verify_2fa" /\ Val(c.snap).status \in Terminal

C15_RepeatMutatesNothing ==
    [][\A w \in Workers :
          (calls'[w] # calls[w] /\ Repeats(calls[w]))
          => events' = events]_vars

-----------------------------------------------------------------------------
\* C16: verify_liveness approves an event only if the event requires
\* liveness and its OTP has been verified: on an event with
\* liveness_required = false, or with two_fa_verified_at unset, it returns
\* verified = false and leaves the event unchanged; when it succeeds it
\* sets liveness_verified and makes the PENDING event APPROVED.
C16_LivenessNeedsOtp ==
    [][/\ \A w \in Workers :
            (/\ Takes(w, "verify_liveness")
             /\ ~IsNone(calls'[w].snap)
             /\ \/ ~Val(calls'[w].snap).liveness_required
                \/ IsNone(Val(calls'[w].snap).two_fa_verified_at))
            => /\ calls'[w].pc = "done"
               /\ calls'[w].result.verified = FALSE
               /\ events' = events
       /\ \A w \in Workers :
            Commits(w, "verify_liveness")
            => LET id == calls[w].args.event_id IN
               /\ events[id].liveness_required
               /\ ~IsNone(events[id].two_fa_verified_at)
               /\ calls'[w].result.verified = TRUE
               /\ FoundPending(calls[w])
                  => /\ events'[id].liveness_verified = TRUE
                     /\ events'[id].status = "APPROVED"
                     /\ events'[id].approved_by
                           = Some(events[id].advocate_id)
       /\ \A w \in Workers, e \in DOMAIN events :
            (/\ calls[w].op = "verify_liveness"
             /\ calls'[w] # calls[w]
             /\ events'[e] # events[e])
            => /\ events[e].liveness_required
               /\ ~IsNone(events[e].two_fa_verified_at)]_vars

\* liveness offered before the OTP was verified
C16_Witness ==
    \E w \in Workers :
        /\ Done(w, "verify_liveness")
        /\ ~IsNone(calls[w].snap)
        /\ Val(calls[w].snap).liveness_required
        /\ IsNone(Val(calls[w].snap).two_fa_verified_at)
        /\ calls[w].result.verified = FALSE
        /\ events[calls[w].args.event_id].status = "PENDING"

\* liveness offered for an event that does not require it
C16_WitnessNotRequired ==
    \E w \in Workers :
        /\ Done(w, "verify_liveness")
        /\ ~IsNone(calls[w].snap)
        /\ ~Val(calls[w].snap).liveness_required
        /\ calls[w].result.error = Some("Liveness not required")

\* liveness accepted after the OTP
C16_WitnessApproved ==
    \E w \in Workers :
        /\ Done(w, "verify_liveness")
        /\ calls[w].result.verified = TRUE
        /\ events[calls[w].args.event_id].liveness_verified
        /\ events[calls[w].args.event_id].status = "APPROVED"

-----------------------------------------------------------------------------
\* C17: revoke is idempotent: revoking a POA that is already revoked
\* returns false, appends no further audit entry, and leaves revoked_at and
\* revocation_reason as the first revoke set them.
C17_RevokeIdempotent ==
    \A w \in Workers :
        (/\ Done(w, "revoke_poa")
         /\ FoundPoa(w)
         /\ ~IsNone(Poa(w).revoked_at))
        => /\ calls[w].result.kind = "returned"
           /\ calls[w].result.success = FALSE
           /\ calls[w].logged = <<>>
           /\ poas[calls[w].args.poa_id].revoked_at = Poa(w).revoked_at
           /\ poas[calls[w].args.poa_id].revocation_reason
                 = Poa(w).revocation_reason

-----------------------------------------------------------------------------
(* What the claims about the token vault speak of *)

\* the token the reveal call of thread w loaded, if it found one
FoundToken(w) == ~IsNone(calls[w].snap)
Token(w) == Val(calls[w].snap)

\* the token was past its expires_at when the call was made
TokenExpiredAtCall(w) ==
    /\ ~IsNone(Token(w).expires_at)
    /\ Val(Token(w).expires_at) < calls[w].args.at

\* the POA that owns the token exists and is valid now
OwnerValid(w) ==
    /\ Token(w).poa_id \in DOMAIN poas
    /\ poas[Token(w).poa_id].is_active
    /\ IsNone(poas[Token(w).poa_id].revoked_at)
    /\ poas[Token(w).poa_id].expiry_date > now

\* the call hands a plaintext to its caller
Reveals(w) ==
    /\ Returned(w, "get_decrypted_token")
    /\ ~IsNone(calls[w].result.token)

-----------------------------------------------------------------------------
\* C18: reveal yields a plaintext only while the token exists, the token is
\* unexpired and the owning POA is valid; a POA that was revoked has no
\* tokens left when revoke returns.
C18_RevealNeedsValidPoa ==
    /\ \A w \in Workers :
          Reveals(w)
          => FoundToken(w) /\ ~TokenExpiredAtCall(w) /\ OwnerValid(w)
    /\ \A w \in Workers :
          (Returned(w, "revoke_poa") /\ calls[w].result.success)
          => \A t \in DOMAIN tokens :
                tokens[t].poa_id # calls[w].args.poa_id

\* a plaintext is handed out although the owning POA has been revoked
C18_Witness ==
    \E w \in Workers :
        /\ Reveals(w)
        /\ FoundToken(w)
        /\ Token(w).poa_id \in DOMAIN poas
        /\ ~IsNone(poas[Token(w).poa_id].revoked_at)
        /\ calls[w].args.at >= Val(poas[Token(w).poa_id].revoked_at)

-----------------------------------------------------------------------------
\* C19: token round trip: a reveal of a stored token returns the plaintext
\* that was stored, as long as the owning POA is valid and the token is
\* unexpired, also when store and reveal are served by different manager
\* instances of the same process configuration.
C19_RoundTrip ==
    \A w \in Workers :
        (/\ Done(w, "get_decrypted_token")
         /\ FoundToken(w)
         /\ ~TokenExpiredAtCall(w)
         /\ OwnerValid(w))
        => /\ calls[w].result.kind = "returned"
           /\ calls[w].result.token = Some(Token(w).encrypted_token.token)

\* the reveal of an unexpired token of a valid POA ends in an exception
C19_Witness ==
    \E w \in Workers :
        /\ Done(w, "get_decrypted_token")
        /\ FoundToken(w)
        /\ ~TokenExpiredAtCall(w)
        /\ OwnerValid(w)
        /\ calls[w].result = Raised
        /\ IsNone(env_key)

-----------------------------------------------------------------------------
\* C20: the audit ledger is append-only: no operation deletes an audit
\* entry or changes the poa_id, action_type, timestamp, decision,
\* reasoning, request_details, amount or signature of an existing entry,
\* and every append receives an id greater than all earlier ids.
Frozen(old, new) ==
    /\ new.id = old.id
    /\ new.poa_id = old.poa_id
    /\ new.action_type = old.action_type
    /\ new.timestamp = old.timestamp
    /\ new.decision = old.decision
    /\ new.reasoning = old.reasoning
    /\ new.request_details = old.request_details
    /\ new.amount = old.amount
    /\ new.signature = old.signature

C20_LedgerAppendOnly ==
    [][/\ \A i \in DOMAIN audit_logs :
            /\ i \in DOMAIN audit_logs'
            /\ Frozen(audit_logs[i], audit_logs'[i])
       /\ \A j \in DOMAIN audit_logs' :
            j \notin DOMAIN audit_logs
            => \A i \in DOMAIN audit_logs :
                  audit_logs'[j].id > audit_logs[i].id]_vars

\* entries were appended, a POA was revoked and an event was decided
C20_Witness ==
    /\ Len(audit_logs) >= 2
    /\ \E e \in DOMAIN events : events[e].status \in Terminal
    /\ \E i \in DOMAIN poas : ~IsNone(poas[i].revoked_at)

-----------------------------------------------------------------------------
\* C21: after its creation no operation changes the spend_limit or the scope
\* of a POA, and once revoked_at is set no operation unsets it or makes the
\* POA active again.
C21_PoaFieldsFrozen ==
    [][\A i \in DOMAIN poas :
          /\ poas'[i].spend_limit = poas[i].spend_limit
          /\ poas'[i].scope = poas[i].scope
          /\ ~IsNone(poas[i].revoked_at) =>
                 /\ ~IsNone(poas'[i].revoked_at)
                 /\ ~poas'[i].is_active]_vars

\* a POA that was revoked is revoked once more: the second call has loaded
\* the revoked row and has written it
C21_Witness ==
    \E w \in Workers :
        /\ calls[w].op = "revoke_poa"
        /\ calls[w].pc = "log"
        /\ FoundPoa(w)
        /\ ~IsNone(Poa(w).revoked_at)
        /\ ~poas[calls[w].args.poa_id].is_active
        /\ poas[calls[w].args.poa_id].spend_limit \in SpendLimits

-----------------------------------------------------------------------------
\* C30: validate on a POA id that does not exist returns authorized = false
\* and BLOCKED with reasoning "POA not found", and writes nothing: the call
\* appends no audit entry and opens no break-glass event.
C30_MissingPoaBlockedSilently ==
    [][\A w \in Workers :
          (Takes(w, "validate_request")
           /\ calls'[w].args.poa_id \notin DOMAIN poas)
          => /\ calls'[w].pc = "done"
             /\ calls'[w].result.kind = "returned"
             /\ ~calls'[w].result.authorized
             /\ calls'[w].result.decision = "BLOCKED"
             /\ calls'[w].result.reasoning = "POA not found"
             /\ calls'[w].logged = <<>>
             /\ calls'[w].opened = <<>>
             /\ UNCHANGED <<poas, audit_logs, events>>]_vars

\* a validate call is returning that found no POA under the id it was given
C30_Witness ==
    \E w \in Workers :
        /\ Returned(w, "validate_request")
        /\ ~FoundPoa(w)
        /\ calls[w].args.poa_id \notin DOMAIN poas
        /\ calls[w].result.reasoning = "POA not found"

-----------------------------------------------------------------------------
\* C29: the plaintext OTP of a break-glass event is never part of the
\* persisted state: no stored event holds, in its two_fa_code column, the
\* code that was generated for it and sent to the advocate.
C29_OtpNotPersisted ==
    \A e \in DOMAIN events :
        events[e].two_fa_code # generate_code(events[e].two_fa_sent_at)

\* an event is stored whose two_fa_code column is accepted as the code by
\* verify_2fa: the column is compared with the submitted string itself
C29_Witness ==
    \E e \in DOMAIN events, w \in Workers :
        /\ Returned(w, "verify_2fa")
        /\ calls[w].args.event_id = e
        /\ calls[w].args.code = events[e].two_fa_code
        /\ calls[w].result.verified

-----------------------------------------------------------------------------
(* The governor, as the claims describe it *)

\* the weight of each rule, by the flag it raises
RuleWeight ==
    [HIGH_AMOUNT |-> 30, VERY_HIGH_AMOUNT |-> 20, ODD_HOURS |-> 25,
     HIGH_RISK_CATEGORY |-> 35, MEDIUM_RISK_CATEGORY |-> 15,
     ODD_HOURS_ATM |-> 15]

\* the flags of an analysis, as a set, and the sum of their weights
FlagSet(a) == {a.flags[i] : i \in DOMAIN a.flags}

RECURSIVE SumOfWeights(_)
SumOfWeights(names) ==
    IF names = {} THEN 0
    ELSE LET name == CHOOSE f \in names : TRUE
         IN RuleWeight[name] + SumOfWeights(names \ {name})

\* the categories of the transactions, each with its normalized name: lower
\* case, and an underscore for every space
NormalizedCategory ==
    <<[text |-> <<"G", "r", "o", "c", "e", "r", "i", "e", "s">>,
       name |-> "groceries"],
      [text |-> <<"G", "i", "f", "t", " ", "C", "a", "r", "d", "s">>,
       name |-> "gift_cards"],
      [text |-> <<"g", "i", "f", "t", "_", "c", "a", "r", "d", "s">>,
       name |-> "gift_cards"],
      [text |-> <<"G", "A", "M", "B", "L", "I", "N", "G">>,
       name |-> "gambling"],
      [text |-> <<"g", "i", "f", "t", "-", "c", "a", "r", "d", "s">>,
       name |-> "gift-cards"],
      [text |-> <<"O", "n", "l", "i", "n", "e", " ", "S", "h", "o", "p", "p", "i", "n", "g">>,
       name |-> "online_shopping"],
      [text |-> <<"t", "r", "a", "v", "e", "l">>,
       name |-> "travel"],
      [text |-> <<"E", "l", "e", "c", "t", "r", "o", "n", "i", "c", "s">>,
       name |-> "electronics"],
      [text |-> <<"O", "t", "h", "e", "r">>,
       name |-> "other"]>>

Normalized(category) ==
    LET k == CHOOSE i \in DOMAIN NormalizedCategory :
                 NormalizedCategory[i].text = category
    IN NormalizedCategory[k].name

HighRiskNames ==
    {"electronics", "wire_transfer", "cryptocurrency", "gift_cards",
     "cash_advance", "gambling", "international_transfer"}
MediumRiskNames == {"jewelry", "luxury_goods", "travel", "online_shopping"}

\* the merchants whose name contains "atm", whatever the case of the letters
AtmMerchants ==
    {<<"C", "h", "a", "s", "e", " ", "A", "T", "M">>,
     <<"B", "o", "a", "t", "m", "a", "n">>}

\* 23:00 to 05:00, both included, through midnight
OddHours(t) == t >= TimeOfDay(23, 0, 0) \/ t <= TimeOfDay(5, 0, 0)

-----------------------------------------------------------------------------
\* C25: the level of an analysis is CRITICAL iff HIGH_AMOUNT, ODD_HOURS and
\* HIGH_RISK_CATEGORY are all flagged; otherwise it is HIGH iff the score is
\* at least 70, MEDIUM iff it is from 40 to 69 and LOW iff it is below 40;
\* the status is APPROVED iff the level is LOW and PENDING_APPROVAL
\* otherwise; the reported risk_score is min(100, sum of the rule weights).
C25_LevelMapping ==
    ~IsNone(analysis) =>
        LET a == Val(analysis)
            score == SumOfWeights(FlagSet(a))
            critical == {"HIGH_AMOUNT", "ODD_HOURS", "HIGH_RISK_CATEGORY"}
                            \subseteq FlagSet(a)
        IN /\ a.risk_level \in {"CRITICAL", "HIGH", "MEDIUM", "LOW"}
           /\ a.risk_level = "CRITICAL" <=> critical
           /\ ~critical =>
                 /\ a.risk_level = "HIGH" <=> score >= 70
                 /\ a.risk_level = "MEDIUM" <=> (40 <= score /\ score < 70)
                 /\ a.risk_level = "LOW" <=> score < 40
           /\ a.status = "APPROVED" <=> a.risk_level = "LOW"
           /\ a.status # "APPROVED" => a.status = "PENDING_APPROVAL"
           /\ a.risk_score = (IF score > 100 THEN 100 ELSE score)

\* an analysis whose score is exactly 70 without the critical combination,
\* and whose level is HIGH
C25_Witness ==
    /\ ~IsNone(analysis)
    /\ SumOfWeights(FlagSet(Val(analysis))) = 70
    /\ ~Flagged(Val(analysis).flags, "HIGH_RISK_CATEGORY")
    /\ Val(analysis).risk_level = "HIGH"

\* an analysis with the critical combination whose weights sum up to more
\* than 100
C25_WitnessCritical ==
    /\ ~IsNone(analysis)
    /\ SumOfWeights(FlagSet(Val(analysis))) > 100
    /\ Val(analysis).risk_level = "CRITICAL"
    /\ Val(analysis).risk_score = 100

-----------------------------------------------------------------------------
\* C26: the rules of the governor are additive and independent: HIGH_AMOUNT
\* iff amount > 200, VERY_HIGH_AMOUNT iff amount > 1000, ODD_HOURS iff the
\* time of day is within 23:00-05:00 (both included), HIGH_RISK_CATEGORY iff
\* the normalized category is in the high-risk set, else
\* MEDIUM_RISK_CATEGORY iff it is in the medium-risk set, ODD_HOURS_ATM iff
\* the merchant name contains "atm" in any case and ODD_HOURS is flagged;
\* each rule adds its weight once, and a transaction that matches no rule
\* has no flags and score 0.
C26_RulesAdditive ==
    ~IsNone(analysis) =>
        LET a == Val(analysis)
            flagged(name) == Flagged(a.flags, name)
            category == Normalized(tx.category)
        IN /\ flagged("HIGH_AMOUNT") <=> tx.amount > Dollars(200)
           /\ flagged("VERY_HIGH_AMOUNT") <=> tx.amount > Dollars(1000)
           /\ flagged("ODD_HOURS") <=> OddHours(tx.transaction_time)
           /\ flagged("HIGH_RISK_CATEGORY") <=> category \in HighRiskNames
           /\ flagged("MEDIUM_RISK_CATEGORY")
                  <=> (category \notin HighRiskNames
                       /\ category \in MediumRiskNames)
           /\ flagged("ODD_HOURS_ATM")
                  <=> (tx.merchant \in AtmMerchants
                       /\ OddHours(tx.transaction_time))
           /\ FlagSet(a) \subseteq DOMAIN RuleWeight
           /\ Cardinality(FlagSet(a)) = Len(a.flags)
           /\ a.risk_score = Min(100, SumOfWeights(FlagSet(a)))
           /\ (/\ tx.amount <= Dollars(200)
               /\ ~OddHours(tx.transaction_time)
               /\ category \notin HighRiskNames \cup MediumRiskNames)
              => a.flags = <<>> /\ a.risk_score = 0

\* a withdrawal at an ATM at 05:00 sharp: ODD_HOURS and ODD_HOURS_ATM are
\* flagged, and the category is written with a capital and a space
C26_Witness ==
    /\ ~IsNone(analysis)
    /\ tx.transaction_time = TimeOfDay(5, 0, 0)
    /\ tx.merchant \in AtmMerchants
    /\ Normalized(tx.category) = "online_shopping"
    /\ Flagged(Val(analysis).flags, "ODD_HOURS_ATM")
    /\ Flagged(Val(analysis).flags, "MEDIUM_RISK_CATEGORY")

\* a transaction that matches no rule
C26_WitnessNoRule ==
    /\ ~IsNone(analysis)
    /\ Val(analysis).flags = <<>>
    /\ Val(analysis).risk_score = 0

-----------------------------------------------------------------------------
(* The scam analyzer, as the claims describe it *)

\* the categories a caller touches with each of the sentences of Phrases
PhraseCategories ==
    <<{},
      {"urgency"},
      {"personal_info_request"},
      {"gift_cards"},
      {"urgency", "authority_impersonation"},
      {"urgency", "gift_cards", "payment_pressure", "family_emergency"},
      {"payment_pressure"},
      {}>>

CategoryWeight ==
    [urgency |-> 25, gift_cards |-> 35, authority_impersonation |-> 30,
     payment_pressure |-> 20, personal_info_request |-> 25,
     family_emergency |-> 30]

\* the sentences that are part of the transcript
Said == {k \in DOMAIN Phrases : contains(Phrases[k], transcript)}

\* the categories of which some pattern matches the transcript
MatchedCategories == UNION {PhraseCategories[k] : k \in Said}

RECURSIVE SumOfCategoryWeights(_)
SumOfCategoryWeights(categories) ==
    IF categories = {} THEN 0
    ELSE LET c == CHOOSE c \in categories : TRUE
         IN CategoryWeight[c] + SumOfCategoryWeights(categories \ {c})

-----------------------------------------------------------------------------
\* C27: for every transcript the analyzer returns a score in 0..100, and two
\* runs of the analyzer on the same transcript return identical outputs:
\* the same score, indicators, action and every other returned field.
C27_SameOutputs ==
    /\ \A i \in DOMAIN reports :
           reports[i].fraud_score >= 0 /\ reports[i].fraud_score <= 100
    /\ \A i, j \in DOMAIN reports : reports[i] = reports[j]

\* the analyzer was run twice on a transcript that weighs more than 100, at
\* two readings of the clock
C27_Witness ==
    /\ Len(reports) = 2
    /\ SumOfCategoryWeights(MatchedCategories) > 100
    /\ reports[1].fraud_score = 100
    /\ reports[1].timestamp # reports[2].timestamp

\* what does hold of two runs: they agree in everything but the timestamp
SameButTimestamp ==
    /\ \A i \in DOMAIN reports :
           reports[i].fraud_score >= 0 /\ reports[i].fraud_score <= 100
    /\ \A i, j \in DOMAIN reports :
           [reports[i] EXCEPT !.timestamp = 0]
               = [reports[j] EXCEPT !.timestamp = 0]

-----------------------------------------------------------------------------
\* C28: every category of which a pattern matches adds its weight exactly
\* once, however many of its patterns match and however often, and yields
\* exactly one indicator; the score is min(100, sum of the weights of the
\* matched categories); the action is INTERVENE_AND_BLOCK iff score > 80,
\* ACTIVATE_ANSWER_BOT iff 50 < score <= 80 and ALLOW iff score <= 50; an
\* empty transcript scores 0 with ALLOW.
C28_CategoryOnce ==
    \A r \in DOMAIN reports :
        LET report == reports[r]
            indicators == report.indicators
            score == report.fraud_score
        IN /\ {indicators[i].category : i \in DOMAIN indicators}
                  = MatchedCategories
           /\ Len(indicators) = Cardinality(MatchedCategories)
           /\ \A i \in DOMAIN indicators :
                  indicators[i].weight = CategoryWeight[indicators[i].category]
           /\ score = Min(100, SumOfCategoryWeights(MatchedCategories))
           /\ report.action = "INTERVENE_AND_BLOCK" <=> score > 80
           /\ report.action = "ACTIVATE_ANSWER_BOT"
                  <=> (50 < score /\ score <= 80)
           /\ report.action = "ALLOW" <=> score <= 50
           /\ transcript = <<>> => score = 0 /\ report.action = "ALLOW"

\* a transcript in which two patterns of one category match (the IRS and a
\* warrant) next to two other categories: three indicators, and the score
\* is 80, the highest that does not yet block
C28_Witness ==
    /\ reports # <<>>
    /\ Said = {3, 5}
    /\ Len(reports[1].indicators) = 3
    /\ reports[1].fraud_score = 80
    /\ reports[1].action = "ACTIVATE_ANSWER_BOT"

\* the empty transcript was analyzed
C28_WitnessEmpty ==
    /\ reports # <<>>
    /\ transcript = <<>>
    /\ reports[1].action = "ALLOW"

-----------------------------------------------------------------------------
(* The card service, as the claims describe it *)

\* the request that is being served carries the HMAC of its raw body under
\* the provider secret
SignedByProvider ==
    webhook.signature = Some(hexdigest(webhook_secret, Val(webhook.body)))

\* the service has answered the request with a decision of the given result
Answers(result) ==
    /\ webhook.pc = "done"
    /\ Val(webhook.response).status_code = 200
    /\ Val(webhook.response).result = result

\* what the governor says of the transaction of the request
CardAnalysis ==
    LET body == Val(webhook.body)
        clock == CHOOSE t \in CardClocks : TRUE
    IN analyze_transaction(body.amount,
                           Val(parse_created(body.created, clock)),
                           mcc_to_category(body.merchant.mcc),
                           body.merchant.descriptor)

-----------------------------------------------------------------------------
\* C22: the webhook processes a request only when its signature is valid: a
\* request whose signature header is not the HMAC-SHA-256 of the raw body
\* under the provider secret, or that carries no signature at all, is
\* answered unauthenticated; it never reaches the risk scorer and never
\* yields APPROVED.
C22_OnlySignedRequests ==
    (webhook.pc # "idle" /\ ~SignedByProvider)
    => /\ webhook.pc = "done"
       /\ webhook.response = Some(Unauthenticated)
       /\ IsNone(webhook.decision)

\* a request without X-Lithic-Signature header was answered APPROVED
C22_Witness ==
    /\ IsNone(webhook.signature)
    /\ Answers("APPROVED")

\* a request with a digest under a key that is not the provider's was
\* answered unauthenticated, without a decision
C22_WitnessForged ==
    /\ webhook.pc = "done"
    /\ webhook.signature
           = Some(hexdigest("not the secret", Val(webhook.body)))
    /\ webhook.response = Some(Unauthenticated)
    /\ IsNone(webhook.decision)

-----------------------------------------------------------------------------
\* C23: the card service appends its audit record before it responds, and
\* any failure on the path, a failed audit write included, turns the
\* response into DECLINED: no APPROVED response is returned for a request
\* whose audit record was not persisted.
C23_NoApprovalWithoutRecord ==
    (webhook.pc = "done" /\ webhook.response # Some(Unauthenticated))
    => \/ /\ ~IsNone(webhook.logged)
          /\ Val(webhook.logged) \in DOMAIN security_logs
          /\ security_logs[Val(webhook.logged)].approval_status
                 = Val(webhook.response).result
       \/ /\ IsNone(webhook.logged)
          /\ Val(webhook.response).status_code = 200
          /\ Val(webhook.response).result = "DECLINED"

\* the commit of the SecurityLog failed, and the request was answered
\* APPROVED all the same
C23_Witness ==
    /\ Answers("APPROVED")
    /\ IsNone(webhook.logged)
    /\ Len(security_logs) < served

-----------------------------------------------------------------------------
C24_WitnessPending ==
    /\ Answers("DECLINED")
    /\ CardAnalysis.risk_level = "HIGH"
    /\ CardAnalysis.risk_score < 90
    /\ "pending_advocate_approval" \in DOMAIN Val(webhook.response).metadata

\* a request of level MEDIUM was approved
C24_WitnessMedium ==
    /\ Answers("APPROVED")
    /\ CardAnalysis.risk_level = "MEDIUM"

\* a request of level CRITICAL was declined
C24_WitnessCritical ==
    /\ Answers("DECLINED")
    /\ CardAnalysis.risk_level = "CRITICAL"
-----------------------------------------------------------------------------
\* the break-glass events bound to the audit entry of the given id
EventsOf(log_id) == {e \in DOMAIN events : events[e].audit_log_id = log_id}

\* a request has appended its BREAK_GLASS entry and not yet opened its event
Opening == \E w \in Workers : calls[w].pc = "trigger"

\* C31: whenever no request is between its audit append and its event
\* creation, every persisted audit entry with decision BREAK_GLASS has
\* exactly one break-glass event bound to it, and every break-glass event is
\* bound to one audit entry, which is a BREAK_GLASS entry; this also after
\* the creation of the event has failed.
C31_EntryAndEventPaired ==
    ~Opening =>
        /\ \A i \in DOMAIN audit_logs :
              audit_logs[i].decision = "BREAK_GLASS"
                  => Cardinality(EventsOf(i)) = 1
        /\ \A e \in DOMAIN events :
              /\ events[e].audit_log_id \in DOMAIN audit_logs
              /\ audit_logs[events[e].audit_log_id].decision = "BREAK_GLASS"

\* the creation of the event has failed and the request is over: the
\* ledger holds a BREAK_GLASS entry that no event is bound to
C31_Witness ==
    /\ \A w \in Workers : calls[w].pc = "idle"
    /\ \E i \in DOMAIN audit_logs :
          /\ audit_logs[i].decision = "BREAK_GLASS"
          /\ EventsOf(i) = {}
-----------------------------------------------------------------------------
C32_WitnessInvalid ==
    \E w \in Workers :
        /\ Returned(w, "validate_request")
        /\ FoundPoa(w)
        /\ ~IsNone(Poa(w).revoked_at)
        /\ ~InScopeAtCall(w) /\ OverLimitAtCall(w)
        /\ calls[w].result.decision = "BLOCKED"
-----------------------------------------------------------------------------
\* the call of thread w has just opened the break-glass event e
Opens(w, e) == calls[w].opened = <<>> /\ calls'[w].opened = <<e>>

C33_WitnessLiveness ==
    \E w \in Workers :
        /\ Returned(w, "validate_request")
        /\ Len(calls[w].opened) = 1
        /\ events[calls[w].opened[1]].verification_method = "BOTH"
        /\ events[calls[w].opened[1]].status = "PENDING"
-----------------------------------------------------------------------------
\* the token row a store call has inserted
Stored(w) == tokens[calls[w].result.token_id]

\* C34: a store with a ttl sets expires_at of the token to the time of the
\* store plus the ttl, for every ttl that is given, 0 included; a store
\* without a ttl, and no other, leaves expires_at unset.
C34_TtlSetsExpiry ==
    \A w \in Workers :
        Returned(w, "store_oauth_token") =>
            LET ttl == calls[w].args.expires_in_seconds IN
            IF IsNone(ttl)
            THEN IsNone(Stored(w).expires_at)
            ELSE Stored(w).expires_at
                     = Some(calls[w].args.at + Val(ttl) \div interval)

\* a token has been stored with a ttl of 0 and has no expires_at
C34_Witness ==
    \E w \in Workers :
        /\ Returned(w, "store_oauth_token")
        /\ calls[w].args.expires_in_seconds = Some(0)
        /\ IsNone(Stored(w).expires_at)

\* a token without expires_at is revealed after the clock has gone on
C34_WitnessRevealed ==
    \E w \in Workers :
        /\ Reveals(w)
        /\ FoundToken(w)
        /\ IsNone(Token(w).expires_at)
        /\ calls[w].args.at > Token(w).created_at
-----------------------------------------------------------------------------
\* an APPROVED event has its OTP verification, its approval and, where it
\* asks for liveness, its liveness verification on record
ApprovedIsVerified ==
    \A e \in DOMAIN events :
        events[e].status = "APPROVED" =>
            /\ ~IsNone(events[e].two_fa_verified_at)
            /\ ~IsNone(events[e].approved_at)
            /\ ~IsNone(events[e].approved_by)
            /\ events[e].liveness_required => events[e].liveness_verified

\* C35: in every state a break-glass event with status APPROVED has
\* two_fa_verified_at, approved_at and approved_by set and, if it requires
\* liveness, liveness_verified true; and two_fa_verified_at of an event is
\* set by nothing but the commit of a verify_2fa call on that event that
\* found its code correct, so that no event is APPROVED without one.
C35_ApprovedIsVerified ==
    [][/\ ApprovedIsVerified'
       /\ \A e \in DOMAIN events :
            (IsNone(events[e].two_fa_verified_at)
             /\ ~IsNone(events'[e].two_fa_verified_at))
            => \E w \in Workers :
                  /\ Commits(w, "verify_2fa")
                  /\ calls[w].args.event_id = e
                  /\ calls'[w].result.verified = TRUE
                  /\ \/ calls[w].args.code = Val(calls[w].snap).two_fa_code
                     \/ \E k \in -1..1 :
                           calls[w].args.code = Some(calls[w].args.at + k)]_vars

\* an event that requires liveness is APPROVED
C35_Witness ==
    \E e \in DOMAIN events :
        /\ events[e].status = "APPROVED"
        /\ events[e].liveness_required
        /\ events[e].liveness_verified

\* an event that does not require liveness is APPROVED by its OTP alone
C35_WitnessOtpOnly ==
    \E e \in DOMAIN events :
        /\ events[e].status = "APPROVED"
        /\ ~events[e].liveness_required
        /\ ~IsNone(events[e].two_fa_verified_at)
-----------------------------------------------------------------------------
\* C36: an OTP is bound to the event it was issued for: a verify_2fa call
\* on an event reports verified = true only if the code it was given is the
\* code generated for that event at its creation, and is offered within the
\* validity window of that code.
C36_OtpBoundToEvent ==
    \A w \in Workers :
        (Returned(w, "verify_2fa") /\ calls[w].result.verified = TRUE) =>
            LET event == Val(calls[w].snap) IN
            /\ calls[w].args.code = event.two_fa_code
            /\ \E k \in -1..1 :
                  event.two_fa_code = Some(calls[w].args.at + k)

\* an event is verified with the code that was issued for another event
C36_Witness ==
    \E w \in Workers :
        /\ Returned(w, "verify_2fa")
        /\ calls[w].result.verified = TRUE
        /\ calls[w].args.code # Val(calls[w].snap).two_fa_code
        /\ \E e \in DOMAIN events :
              /\ e # calls[w].args.event_id
              /\ events[e].two_fa_code = calls[w].args.code

\* an event is approved with a code of the generator that was issued for
\* no event at all
C36_WitnessUnrelated ==
    \E w \in Workers :
        /\ Returned(w, "verify_2fa")
        /\ calls[w].result.status = Some("APPROVED")
        /\ \A e \in DOMAIN events :
              events[e].two_fa_code # calls[w].args.code
-----------------------------------------------------------------------------
\* C37: the spend limit is applied to each request on its own.  A validate
\* call on a valid POA, for a service in scope, that returns, returns
\* ALLOWED if its amount is at most spend_limit and BREAK_GLASS, with a new
\* PENDING event of its own, if its amount is above spend_limit: whatever
\* the ledger holds of earlier requests and whatever events were approved.
C37_LimitPerRequest ==
    \A w \in Workers :
        (/\ Returned(w, "validate_request")
         /\ FoundPoa(w)
         /\ ValidAtCall(w) /\ InScopeAtCall(w)
         /\ ~IsNone(calls[w].args.amount)) =>
            IF Val(calls[w].args.amount) <= Poa(w).spend_limit
            THEN /\ calls[w].result.decision = "ALLOWED"
                 /\ calls[w].result.authorized
                 /\ calls[w].opened = <<>>
            ELSE /\ calls[w].result.decision = "BREAK_GLASS"
                 /\ ~calls[w].result.authorized
                 /\ Len(calls[w].opened) = 1
                 /\ calls[w].result.break_glass_event_id
                       = Some(calls[w].opened[1])
                 /\ events[calls[w].opened[1]].audit_log_id
                       = calls[w].logged[1]

\* a request of 200 on a limit of 200 is ALLOWED although the ledger has
\* allowed 200 on the same POA before
C37_Witness ==
    \E w \in Workers :
        /\ Returned(w, "validate_request")
        /\ calls[w].result.decision = "ALLOWED"
        /\ calls[w].args.amount = Some(Poa(w).spend_limit)
        /\ \E i \in DOMAIN audit_logs :
              /\ i \notin {calls[w].logged[k] : k \in DOMAIN calls[w].logged}
              /\ audit_logs[i].poa_id = calls[w].args.poa_id
              /\ audit_logs[i].decision = "ALLOWED"
              /\ audit_logs[i].amount = Some(Poa(w).spend_limit)

\* a request above the limit opens a second event while the event of an
\* earlier request is APPROVED
C37_WitnessApproved ==
    \E w \in Workers :
        /\ Returned(w, "validate_request")
        /\ calls[w].result.decision = "BREAK_GLASS"
        /\ Len(calls[w].opened) = 1
        /\ \E e \in DOMAIN events :
              /\ e # calls[w].opened[1]
              /\ events[e].status = "APPROVED"
              /\ audit_logs[events[e].audit_log_id].poa_id = calls[w].args.poa_id
-----------------------------------------------------------------------------
\* the entries of the ledger that belong to the POA an export was asked for
EntriesOf(w) ==
    {i \in DOMAIN audit_logs : audit_logs[i].poa_id = calls[w].args.poa_id}

\* the ids of the entries an export holds
ExportedIds(w) ==
    {calls[w].result.logs[k].id : k \in DOMAIN calls[w].result.logs}

\* C38: the structured export of a POA's audit trail holds every entry of
\* that POA that is in the ledger at the time of the call, and no other,
\* and its total_logs is the number of these entries, however many.
C38_ExportComplete ==
    \A w \in Workers :
        Returned(w, "export_logs_json") =>
            /\ ExportedIds(w) = EntriesOf(w)
            /\ calls[w].result.total_logs = Cardinality(EntriesOf(w))

\* the ledger holds more entries of the POA than the export has
C38_Witness ==
    \E w \in Workers :
        /\ Returned(w, "export_logs_json")
        /\ Cardinality(EntriesOf(w)) > limit
        /\ calls[w].result.total_logs = limit

\* up to the limit of the query the export is complete
C38_CompleteUpToLimit ==
    \A w \in Workers :
        (Returned(w, "export_logs_json") /\ Cardinality(EntriesOf(w)) <= limit)
        => /\ ExportedIds(w) = EntriesOf(w)
           /\ calls[w].result.total_logs = Cardinality(EntriesOf(w))
-----------------------------------------------------------------------------
\* the risk levels in their order
LevelRank == [LOW |-> 1, MEDIUM |-> 2, HIGH |-> 3, CRITICAL |-> 4]

\* what the governor says of the transaction at hand if its amount is
\* another and its time, category and merchant are the same
AtAmount(amount) ==
    analyze_transaction(amount, tx.transaction_time, tx.category, tx.merchant)

\* C39: the governor is monotone in the amount.  With time, category and
\* merchant the same, the analysis of a transaction has a risk score and a
\* risk level that are at least those of every lower amount, and is not
\* APPROVED if a lower amount is PENDING_APPROVAL; and its flags hold
\* VERY_HIGH_AMOUNT only with HIGH_AMOUNT and ODD_HOURS_ATM only with
\* ODD_HOURS.
C39_MonotoneInAmount ==
    ~IsNone(analysis) =>
        LET a == Val(analysis) IN
        /\ \A amount \in GovernorAmounts :
              amount <= tx.amount =>
                  /\ AtAmount(amount).risk_score <= a.risk_score
                  /\ LevelRank[AtAmount(amount).risk_level]
                        <= LevelRank[a.risk_level]
                  /\ AtAmount(amount).status = "PENDING_APPROVAL"
                        => a.status = "PENDING_APPROVAL"
        /\ "VERY_HIGH_AMOUNT" \in FlagSet(a) => "HIGH_AMOUNT" \in FlagSet(a)
        /\ "ODD_HOURS_ATM" \in FlagSet(a) => "ODD_HOURS" \in FlagSet(a)

\* the amount has taken the transaction from LOW and APPROVED to
\* PENDING_APPROVAL
C39_Witness ==
    /\ ~IsNone(analysis)
    /\ Val(analysis).status = "PENDING_APPROVAL"
    /\ "VERY_HIGH_AMOUNT" \in FlagSet(Val(analysis))
    /\ \E amount \in GovernorAmounts :
          /\ amount < tx.amount
          /\ AtAmount(amount).risk_level = "LOW"
          /\ AtAmount(amount).status = "APPROVED"

\* the amount has taken the transaction from MEDIUM to CRITICAL
C39_WitnessCritical ==
    /\ ~IsNone(analysis)
    /\ Val(analysis).risk_level = "CRITICAL"
    /\ \E amount \in GovernorAmounts :
          /\ amount < tx.amount
          /\ AtAmount(amount).risk_level = "MEDIUM"

\* the amount has raised the score and left the level where it was, and
\* the ATM is flagged together with the odd hour
C39_WitnessSameLevel ==
    /\ ~IsNone(analysis)
    /\ "ODD_HOURS_ATM" \in FlagSet(Val(analysis))
    /\ \E amount \in GovernorAmounts :
          /\ amount < tx.amount
          /\ AtAmount(amount).risk_score < Val(analysis).risk_score
          /\ AtAmount(amount).risk_level = Val(analysis).risk_level
====
